---------------------------- MODULE Spec2Model ----------------------------
(***************************************************************************)
(* bloat-hunter: the directory scanner (core/scanner.py), the duplicate    *)
(* detector (core/duplicates.py), the parallel helper (core/parallel.py),  *)
(* the protected-path guard (safety/protected.py), the cleaner             *)
(* (core/cleaner.py), the cleanup flows of the command line (cli.py), the  *)
(* pattern registries (patterns/), and the cache and package-cache         *)
(* scanners (core/cache_scanner.py, core/package_scanner.py) with the      *)
(* cache locations of platform/detect.py.                                  *)
(*                                                                         *)
(* A path is the sequence of its components below the filesystem root:     *)
(* <<"home", "u", "proj">> is /home/u/proj and <<>> is "/".  PathStr gives *)
(* the string str(path) of the source.  Every path of the model is         *)
(* absolute and POSIX (the CLI resolves its argument, os.scandir yields    *)
(* children of an absolute directory).                                     *)
(***************************************************************************)
EXTENDS Integers, Sequences, FiniteSets, TLC

VARIABLES
    fs,             \* the filesystem: a set of entries (see Entry below)
    scandir_rev,    \* the order os.scandir lists a directory in (see Scandir)
    scan_root,      \* the directory the command is given
    pc,             \* position of the running command
    command,        \* "scan" | "clean" | "duplicates" (cli.py)
    min_size,       \* Scanner.min_size / DuplicateScanner.min_size
    par_enabled,    \* ParallelConfig.enabled of the running scanner
    matches,        \* Scanner.scan: list of (path, pattern) candidates
    pending,        \* parallel_map: indices of the items not yet yielded
    targets,        \* ScanResult.targets
    total_size,     \* ScanResult.total_size
    scan_errors,    \* ScanResult.scan_errors / DuplicateResult.scan_errors
    candidates,     \* DuplicateScanner.scan: flattened (size, path) list
    hash_groups,    \* DuplicateScanner.scan: dict key -> DuplicateGroup, in insertion order
    groups,         \* DuplicateResult.groups
    total_wasted,   \* DuplicateResult.total_wasted
    files_scanned,  \* DuplicateResult.files_scanned
    dry_run,        \* --dry-run/--execute
    interactive,    \* --interactive/--auto
    selected,       \* selected_targets / selected_groups of the cleanup handler
    calls,          \* the collaborators the cleanup handler has called, in order
    clean_idx,      \* Cleaner.clean: index of the next target of the loop
    success_count,  \* Cleaner.clean
    failure_count,  \* Cleaner.clean
    kgroup,         \* a DuplicateGroup handed to the keep/delete selection
    kstrategy,      \* the KeepStrategy handed to it
    kkeep,          \* result of get_keep_file
    kremove,        \* result of get_duplicates_to_remove
    pm_items,       \* parallel_map / parallel_map_ordered: the items argument
    pm_mode,        \* which of the two functions runs
    pm_results,     \* the tuples yielded so far / the results list
    gpath,          \* is_protected_path: the path argument
    gscan,          \* is_protected_path(gpath, for_scanning=True)
    gdelete,        \* is_protected_path(gpath, for_scanning=False)
    mp_path,        \* match_patterns: the path argument
    mp_patterns,    \* match_patterns: the patterns argument
    mp_results,     \* what each call of match_patterns so far returned
    pk_path,        \* PackageScanner._match_against_patterns: the path argument
    pk_include,     \* PackageScanner._include: manager -> enabled
    pk_result,      \* what PackageScanner._match_against_patterns returned
    walk_max_depth, \* Scanner.scan: the max_depth handed to _collect_matches
    enumerated,     \* the directories the walk has called os.scandir on, in order
    futures,        \* parallel_map: the futures of the pool, each not done or holding its result
    xdg_cache_home, \* XdgPaths.cache_home: $XDG_CACHE_HOME, or ~/.cache when it is unset
    cache_roots     \* CacheScanner.scan / PackageScanner.scan: paths_to_scan

vars == <<fs, scandir_rev, scan_root, pc, command, min_size, par_enabled, matches, pending,
          targets, total_size, scan_errors, candidates, hash_groups, groups,
          total_wasted, files_scanned, dry_run, interactive, selected, calls,
          clean_idx, success_count, failure_count, kgroup, kstrategy, kkeep,
          kremove, pm_items, pm_mode, pm_results, gpath, gscan, gdelete,
          mp_path, mp_patterns, mp_results,
          pk_path, pk_include, pk_result,
          walk_max_depth, enumerated,
          futures,
          xdg_cache_home, cache_roots>>

scanVars == <<min_size, par_enabled, matches, pending, targets, total_size,
              scan_errors>>
dupVars == <<candidates, hash_groups, groups, total_wasted, files_scanned>>
cliVars == <<dry_run, interactive, selected, calls>>
cleanerVars == <<clean_idx, success_count, failure_count>>
keepVars == <<kgroup, kstrategy, kkeep, kremove>>
parVars == <<pm_items, pm_mode, pm_results>>
guardVars == <<gpath, gscan, gdelete>>
matchVars == <<mp_path, mp_patterns, mp_results>>
pkgVars == <<pk_path, pk_include, pk_result>>
walkVars == <<walk_max_depth, enumerated>>
poolVars == <<futures>>
envVars == <<xdg_cache_home, cache_roots>>

(***************************************************************************)
(* Bounds of the model.                                                    *)
(***************************************************************************)
\* at most this many optional directories of the tree universe are present
MaxDirs == 2
\* at most this many optional files of the duplicate universe are present
MaxFiles == 4
\* at most this many entries fail (a directory that cannot be enumerated,
\* a file that cannot be opened)
MaxFaults == 1
\* modification times of the groups handed to the selection policy: 1..MaxMtime
MaxMtime == 2
\* number of files of a group handed to the selection policy: 0..MaxGroupLen
MaxGroupLen == 3
\* number of items handed to parallel_map / parallel_map_ordered: 0..MaxItems
MaxItems == 3
\* number of directories above the last component of a path handed to
\* is_protected_path: 0..MaxPathDepth
MaxPathDepth == 2
\* length of a pattern list handed to match_patterns: 0..MaxPatterns
MaxPatterns == 2
\* number of calls of match_patterns on one filesystem: up to MaxCalls
MaxCalls == 2
\* number of package managers a PackageManagerConfig switches off: 0..MaxDisabled
MaxDisabled == 1
\* length of the chain of nested directories of a deep tree (Scanner.scan
\* walks with max_depth 5 or 10)
MaxChain == 12
\* number of consecutive directories of a chain whose name the registry
\* knows: 0..MaxNested
MaxNested == 2

(***************************************************************************)
(* Paths.                                                                  *)
(***************************************************************************)
None == "None"

RECURSIVE PathStr(_)
\* str(path): "/" for the root, else "/c1/c2/.../cn"
PathStr(p) ==
    IF p = <<>> THEN "/"
    ELSE IF Len(p) = 1 THEN "/" \o p[1]
    ELSE PathStr(SubSeq(p, 1, Len(p) - 1)) \o "/" \o p[Len(p)]

\* path.name: the last component ("" for the root)
Name(p) == IF p = <<>> THEN "" ELSE p[Len(p)]

\* path.parent (the root is its own parent)
Parent(p) == IF p = <<>> THEN <<>> ELSE SubSeq(p, 1, Len(p) - 1)

\* path / name
Join(p, n) == Append(p, n)

IsPrefix(p, q) == Len(p) <= Len(q) /\ SubSeq(q, 1, Len(p)) = p

\* str.lower() on the strings of the model that hold an upper-case letter;
\* every other string of the model is already lower case
Lower(s) ==
    CASE s = "C:\\" -> "c:\\"
      [] s = "C:\\Windows" -> "c:\\windows"
      [] s = "C:\\Program Files" -> "c:\\program files"
      [] s = "C:\\Program Files (x86)" -> "c:\\program files (x86)"
      [] s = "C:\\ProgramData" -> "c:\\programdata"
      [] s = "/mnt/c/Windows" -> "/mnt/c/windows"
      [] s = "/mnt/c/Program Files" -> "/mnt/c/program files"
      [] s = "/mnt/c/Program Files (x86)" -> "/mnt/c/program files (x86)"
      [] s = "/mnt/c/ProgramData" -> "/mnt/c/programdata"
      [] s = "/System" -> "/system"
      [] s = "/Library" -> "/library"
      [] s = "/Applications" -> "/applications"
      [] s = "Documents" -> "documents"
      [] s = "Desktop" -> "desktop"
      [] s = "Downloads" -> "downloads"
      [] s = "Pictures" -> "pictures"
      [] s = "Music" -> "music"
      [] s = "Videos" -> "videos"
      [] s = "HEAD" -> "head"
      [] s = "TMP" -> "tmp"
      [] OTHER -> s

\* str(path.absolute()).lower(): lower-casing acts on each component
LowerPath(p) == [i \in 1..Len(p) |-> Lower(p[i])]

(***************************************************************************)
(* safety/protected.py                                                     *)
(***************************************************************************)
PROTECTED_PATTERNS ==
    { "/", "/bin", "/boot", "/dev", "/etc", "/lib", "/lib64", "/opt", "/proc",
      "/root", "/run", "/sbin", "/srv", "/sys", "/tmp", "/usr", "/var",
      "C:\\", "C:\\Windows", "C:\\Program Files", "C:\\Program Files (x86)",
      "C:\\ProgramData",
      "/mnt/c/Windows", "/mnt/c/Program Files", "/mnt/c/Program Files (x86)",
      "/mnt/c/ProgramData",
      "/System", "/Library", "/Applications", "/private",
      "Documents", "Desktop", "Downloads", "Pictures", "Music", "Videos",
      ".ssh", ".gnupg", ".config" }

PROTECTED_NAMES ==
    { ".ssh", ".gnupg", ".gpg", ".aws", ".kube", ".docker", "credentials",
      "secrets", ".password-store", ".local/share/keyrings" }

PROTECTED_INDICATORS ==
    { ".git", "package.json", "pyproject.toml", "Cargo.toml", "go.mod",
      "pom.xml", "build.gradle" }

\* Path.home()
Home == <<"home", "u">>

\* platform.system() of the modelled host
PlatformSystem == "Linux"

\* _is_cache_subdirectory
IsCacheSubdirectory(path) ==
    Name(path) \in { "__pycache__", ".pytest_cache", ".mypy_cache", ".ruff_cache",
                     "node_modules", ".next", ".nuxt", ".cache", ".parcel-cache",
                     ".tox", ".nox" }

\* the lower-cased entries of PROTECTED_PATTERNS (protected.lower())
PROTECTED_PATTERNS_LOWER == { Lower(protected) : protected \in PROTECTED_PATTERNS }

\* path_lower, and the strings s with path_lower.startswith(s + os.sep).  No
\* component holds a "/", so a prefix that ends in "/" ends at a component
\* boundary: these s are the strings of the proper non-root ancestors.
PathLowerStrs(path) ==
    LET path_lower == LowerPath(path)
    IN  [self |-> PathStr(path_lower),
         above |-> { PathStr(SubSeq(path_lower, 1, k)) : k \in 1..(Len(path_lower) - 1) }]

\* the test without its startswith half
MatchesProtectedPatternExact(path) ==
    PathLowerStrs(path).self \in PROTECTED_PATTERNS_LOWER

\* "path_lower == protected_lower or path_lower.startswith(protected_lower + os.sep)"
\* for some entry of PROTECTED_PATTERNS
MatchesProtectedPattern(path) ==
    LET strs == PathLowerStrs(path)
    IN  \E protected_lower \in PROTECTED_PATTERNS_LOWER :
            strs.self = protected_lower \/ protected_lower \in strs.above

\* (path / indicator).exists()
Exists(p) == \E e \in fs : e.path = p

\* the guard with PROTECTED_NAMES consulted for deletion only
IsProtectedPathNamesForDeletionOnly(path, for_scanning) ==
    \/ /\ MatchesProtectedPattern(path)
       /\ ~IsCacheSubdirectory(path)
    \/ /\ ~for_scanning
       /\ Name(path) \in PROTECTED_NAMES
    \/ /\ Parent(path) = Home
       /\ Name(path) \in { "Documents", "Desktop", "Downloads", "Pictures", "Music",
                           "Videos" }
    \/ /\ ~for_scanning
       /\ \E indicator \in PROTECTED_INDICATORS : Exists(Join(path, indicator))

\* the guard with PROTECTED_INDICATORS consulted whatever for_scanning is
IsProtectedPathIndicatorsAlways(path, for_scanning) ==
    \/ /\ MatchesProtectedPattern(path)
       /\ ~IsCacheSubdirectory(path)
    \/ Name(path) \in PROTECTED_NAMES
    \/ /\ Parent(path) = Home
       /\ Name(path) \in { "Documents", "Desktop", "Downloads", "Pictures", "Music",
                           "Videos" }
    \/ \E indicator \in PROTECTED_INDICATORS : Exists(Join(path, indicator))

\* is_protected_path(path, for_scanning) on a Linux host
is_protected_path(path, for_scanning) ==
    \/ /\ MatchesProtectedPattern(path)
       /\ ~IsCacheSubdirectory(path)
    \/ Name(path) \in PROTECTED_NAMES
    \/ /\ Parent(path) = Home
       /\ Name(path) \in { "Documents", "Desktop", "Downloads", "Pictures", "Music",
                           "Videos" }
    \/ /\ ~for_scanning
       /\ \E indicator \in PROTECTED_INDICATORS : Exists(Join(path, indicator))

(***************************************************************************)
(* The filesystem.  An entry is                                            *)
(*   [path, kind: "dir" | "file" | "symlink", size, digest, mtime, err]    *)
(* size, digest and mtime are those of a regular file (st_size, the hex    *)
(* digest of its content, st_mtime); err is TRUE for a directory that      *)
(* os.scandir cannot enumerate and for a file that open() cannot read      *)
(* (PermissionError).                                                      *)
(***************************************************************************)
Dir(p) == [path |-> p, kind |-> "dir", size |-> 0, digest |-> "", mtime |-> 0,
           err |-> FALSE]
File(p, s, d, m) == [path |-> p, kind |-> "file", size |-> s, digest |-> d,
                     mtime |-> m, err |-> FALSE]
Symlink(p) == [path |-> p, kind |-> "symlink", size |-> 0, digest |-> "",
               mtime |-> 0, err |-> FALSE]

\* os.readlink: every symlink of the trees points to the directory holding
\* it, an ancestor of the link
Readlink(p) == Parent(p)

EntryAt(p) == CHOOSE e \in fs : e.path = p

\* the entries directly inside directory p
Children(p) == { e \in fs : Len(e.path) = Len(p) + 1 /\ IsPrefix(p, e.path) }

\* the entries at or below p
Subtree(p) == { e \in fs : IsPrefix(p, e.path) }

\* A fixed total order on entry names.  os.scandir lists a directory in an
\* arbitrary order that does not change while the tree is unchanged: the
\* model lists by this rank, ascending or descending (scandir_rev).
NameRank(n) ==
    CASE n = ".docker" -> 1
      [] n = ".git" -> 2
      [] n = "__pycache__" -> 3
      [] n = "a.txt" -> 4
      [] n = "b.txt" -> 5
      [] n = "build" -> 6
      [] n = "c.txt" -> 7
      [] n = "e.txt" -> 8
      [] n = "node_modules" -> 9
      [] n = "src" -> 10
      [] n = "vendor" -> 11
      [] OTHER -> 12

RECURSIVE SortByRank(_)
\* the entries of a set as a sequence ascending in NameRank of the name
SortByRank(S) ==
    IF S = {} THEN <<>>
    ELSE LET e == CHOOSE x \in S :
                    \A y \in S : NameRank(Name(x.path)) <= NameRank(Name(y.path))
         IN  <<e>> \o SortByRank(S \ {e})

Reverse(s) == [i \in 1..Len(s) |-> s[Len(s) + 1 - i]]

\* with os.scandir(path) as entries: the entries in listing order
Scandir(p) ==
    IF scandir_rev THEN Reverse(SortByRank(Children(p))) ELSE SortByRank(Children(p))

\* os.scandir(path) raises PermissionError
ScandirFails(p) == EntryAt(p).err

\* the text of the PermissionError raised for path p
ErrText(p) == "[Errno 13] Permission denied: '" \o PathStr(p) \o "'"

\* a scan error that leaves the path out
ScanErrorMessageOnly(path) == ErrText(path)

\* f"{path}: {e}"
ScanError(path) == PathStr(path) \o ": " \o ErrText(path)

(***************************************************************************)
(* patterns/: the registry.  A BloatPattern is                             *)
(*   [name, patterns, safe_level, min_size, validator]                     *)
(* with validator the name of the validator function, or None.             *)
(***************************************************************************)
BP(n, pats, safe, minsz, val) ==
    [name |-> n, patterns |-> pats, safe_level |-> safe, min_size |-> minsz,
     validator |-> val]

CACHE_PATTERNS == <<
    BP("__pycache__", <<"__pycache__">>, "safe", 0, None),
    BP(".pytest_cache", <<".pytest_cache">>, "safe", 0, None),
    BP(".mypy_cache", <<".mypy_cache">>, "safe", 0, None),
    BP(".ruff_cache", <<".ruff_cache">>, "safe", 0, None),
    BP(".tox", <<".tox">>, "safe", 0, None),
    BP(".nox", <<".nox">>, "safe", 0, None),
    BP(".coverage", <<"htmlcov", ".coverage">>, "safe", 0, None),
    BP("node_modules", <<"node_modules">>, "safe", 1024 * 1024, None),
    BP(".next", <<".next">>, "safe", 0, None),
    BP(".nuxt", <<".nuxt">>, "safe", 0, None),
    BP(".parcel-cache", <<".parcel-cache">>, "safe", 0, None),
    BP(".turbo", <<".turbo">>, "safe", 0, None),
    BP("target", <<"target">>, "caution", 10 * 1024 * 1024, None),
    BP(".gradle", <<".gradle">>, "safe", 0, None),
    BP("build", <<"build">>, "caution", 0, None),
    BP(".cache", <<".cache">>, "safe", 0, None),
    BP("tmp", <<"tmp", "temp", ".tmp">>, "safe", 0, None) >>

DEV_PATTERNS == <<
    BP(".venv", <<".venv", "venv", ".virtualenv", "virtualenv", "env">>, "caution", 0,
       "_is_venv"),
    BP(".eggs", <<".eggs">>, "safe", 0, None),
    BP("*.egg-info", <<"re:.*\\.egg-info$">>, "safe", 0, None),
    BP("dist", <<"dist">>, "caution", 0, "_is_dist"),
    BP(".idea", <<".idea">>, "caution", 0, None),
    BP(".vscode", <<".vscode">>, "caution", 0, None),
    BP("docs/_build", <<"_build">>, "safe", 0, None),
    BP("site", <<"site">>, "caution", 0, None),
    BP("logs", <<"logs", "log">>, "caution", 0, None),
    BP("vendor", <<"vendor", "vendors">>, "caution", 0, None),
    BP(".docker", <<".docker">>, "safe", 0, None),
    BP(".terraform", <<".terraform">>, "safe", 0, None) >>

SYSTEM_PATTERNS == <<
    BP(".DS_Store", <<".DS_Store">>, "safe", 0, None),
    BP("__MACOSX", <<"__MACOSX">>, "safe", 0, None),
    BP("Thumbs.db", <<"Thumbs.db", "thumbs.db">>, "safe", 0, None),
    BP("desktop.ini", <<"desktop.ini">>, "safe", 0, None),
    BP(".git", <<".git">>, "dangerous", 0, None),
    BP(".svn", <<".svn">>, "dangerous", 0, None),
    BP(".hg", <<".hg">>, "dangerous", 0, None),
    BP("*.bak", <<"re:.*\\.bak$", "re:.*~$">>, "caution", 0, None),
    BP("crash", <<"CrashDumps", "crash_dumps", "dumps">>, "safe", 0, None) >>

\* get_all_patterns
get_all_patterns == CACHE_PATTERNS \o DEV_PATTERNS \o SYSTEM_PATTERNS

\* patterns/browser_cache.py
BROWSER_CACHE_PATTERNS == <<
    BP("Chrome Cache", <<"Cache", "Code Cache", "GPUCache", "ShaderCache",
                         "GrShaderCache">>, "safe", 0, None),
    BP("Chrome Media Cache", <<"Media Cache", "Service Worker">>, "safe", 0, None),
    BP("Chrome Storage", <<"IndexedDB", "Local Storage", "Session Storage">>,
       "caution", 0, None),
    BP("Firefox Cache", <<"cache2", "startupCache", "shader-cache">>, "safe", 0, None),
    BP("Firefox Offline Cache", <<"OfflineCache">>, "safe", 0, None),
    BP("Edge Cache", <<"Cache", "Code Cache", "GPUCache">>, "safe", 0, None),
    BP("Safari Cache", <<"re:com\\.apple\\.Safari.*">>, "safe", 0, None),
    BP("WebKit Cache", <<"re:com\\.apple\\.WebKit.*">>, "safe", 0, None) >>

PACKAGE_MANAGER_PATTERNS == <<
    BP("npm cache", <<"_cacache", "_npx", "_logs">>, "safe", 0, None),
    BP("yarn cache", <<"yarn", "re:v[0-9]+-tmp">>, "safe", 0, None),
    BP("pnpm store", <<"pnpm-store", "pnpm">>, "safe", 0, None),
    BP("pip cache", <<"pip", "wheels", "re:^http-v[0-9]+$">>, "safe", 0, None),
    BP("pipx cache", <<"pipx">>, "safe", 0, None),
    BP("Cargo registry", <<"registry">>, "caution", 50 * 1024 * 1024, None),
    BP("Cargo git", <<"checkouts", "re:^db$">>, "caution", 50 * 1024 * 1024, None),
    BP("Go build cache", <<"go-build">>, "safe", 0, None),
    BP("Go mod cache", <<"re:^mod$">>, "caution", 0, None),
    BP("Gradle caches", <<"re:^caches$", "modules-2", "build-cache-1">>, "safe", 0,
       None),
    BP("Composer cache", <<"composer">>, "safe", 0, None),
    BP("NuGet cache", <<"nuget", "NuGet">>, "safe", 0, None),
    BP("Bundler cache", <<"bundler">>, "safe", 0, None) >>

APP_CACHE_PATTERNS == <<
    BP("VS Code Cache", <<"CachedData", "CachedExtensions", "CachedExtensionVSIXs">>,
       "safe", 0, None),
    BP("VS Code Crashpad", <<"Crashpad">>, "safe", 0, None),
    BP("JetBrains Caches",
       <<"re:^(IntelliJ|PyCharm|WebStorm|GoLand|CLion|Rider|PhpStorm|RubyMine|DataGrip|AndroidStudio).*",
         "re:^JetBrains$">>, "safe", 0, None),
    BP("JetBrains Local History", <<"LocalHistory">>, "caution", 0, None),
    BP("Docker buildx cache", <<"buildx">>, "caution", 0, None),
    BP("Electron GPU Cache", <<"GPUCache", "gpu-process-preferences">>, "safe", 0, None),
    BP("Electron Blob Storage", <<"blob_storage">>, "safe", 0, None),
    BP("Teams Cache", <<"re:^Teams$", "re:^microsoft-teams$">>, "safe", 0, None),
    BP("Slack Cache", <<"re:^[Ss]lack$">>, "safe", 0, None),
    BP("Discord Cache", <<"re:^[Dd]iscord$">>, "safe", 0, None),
    BP("Zoom Cache", <<"re:^[Zz]oom$", "re:^zoom\\.us$">>, "safe", 0, None),
    BP("Spotify Cache", <<"re:^spotify$", "re:^Spotify$">>, "safe", 0, None),
    BP("Thumbnails", <<"thumbnails", "Thumbnails">>, "safe", 0, None),
    BP("Font Cache", <<"fontconfig">>, "safe", 0, None),
    BP("Mesa Shader Cache", <<"mesa_shader_cache", "mesa_shader_cache_db">>, "safe", 0,
       None),
    BP("NVIDIA Cache", <<"nvidia", "GLCache", "ComputeCache">>, "safe", 0, None),
    BP("AMD Cache", <<"AMD", "VkCache">>, "safe", 0, None) >>

\* get_system_cache_patterns
get_system_cache_patterns ==
    BROWSER_CACHE_PATTERNS \o PACKAGE_MANAGER_PATTERNS \o APP_CACHE_PATTERNS

\* _is_venv: one of the first three indicators exists
IsVenv(path) ==
    \/ Exists(Join(path, "pyvenv.cfg"))
    \/ Exists(Join(Join(path, "bin"), "activate"))
    \/ Exists(Join(Join(path, "Scripts"), "activate.bat"))

\* _is_dist
IsDist(path) ==
    \/ Exists(Join(Parent(path), "setup.py"))
    \/ Exists(Join(Parent(path), "pyproject.toml"))

\* self.validator is None or self.validator(path)
ValidatorOk(pattern, path) ==
    CASE pattern.validator = None -> TRUE
      [] pattern.validator = "_is_venv" -> IsVenv(path)
      [] pattern.validator = "_is_dist" -> IsDist(path)

\* pattern.startswith("re:"): the regex matchers of the registries
IsRegex(pat) ==
    pat \in { "re:.*\\.egg-info$", "re:.*\\.bak$", "re:.*~$",
              "re:com\\.apple\\.Safari.*", "re:com\\.apple\\.WebKit.*",
              "re:v[0-9]+-tmp", "re:^http-v[0-9]+$", "re:^db$", "re:^mod$",
              "re:^caches$",
              "re:^(IntelliJ|PyCharm|WebStorm|GoLand|CLion|Rider|PhpStorm|RubyMine|DataGrip|AndroidStudio).*",
              "re:^JetBrains$", "re:^Teams$", "re:^microsoft-teams$", "re:^[Ss]lack$",
              "re:^[Dd]iscord$", "re:^[Zz]oom$", "re:^zoom\\.us$", "re:^spotify$",
              "re:^Spotify$" }

\* re.match(pattern[3:], name) on the names of the model: for each regex the
\* names of the model that it matches (re.match anchors at the start of the
\* name only)
ReMatch(pat, name) ==
    CASE pat = "re:.*\\.egg-info$" -> name = "pkg.egg-info"
      [] pat = "re:.*\\.bak$" -> name = "old.bak"
      [] pat = "re:.*~$" -> name = "notes~"
      [] pat = "re:com\\.apple\\.Safari.*" -> name = "com.apple.Safari"
      [] pat = "re:com\\.apple\\.WebKit.*" -> name = "com.apple.WebKit"
      [] pat = "re:v[0-9]+-tmp" -> name = "v6-tmp"
      [] pat = "re:^http-v[0-9]+$" -> name = "http-v2"
      [] pat = "re:^db$" -> name = "db"
      [] pat = "re:^mod$" -> name = "mod"
      [] pat = "re:^caches$" -> name = "caches"
      [] pat = "re:^(IntelliJ|PyCharm|WebStorm|GoLand|CLion|Rider|PhpStorm|RubyMine|DataGrip|AndroidStudio).*"
            -> name = "PyCharm2024.1"
      [] pat = "re:^JetBrains$" -> name = "JetBrains"
      [] pat = "re:^Teams$" -> name = "Teams"
      [] pat = "re:^microsoft-teams$" -> name = "microsoft-teams"
      [] pat = "re:^[Ss]lack$" -> name \in { "Slack", "slack" }
      [] pat = "re:^[Dd]iscord$" -> name \in { "Discord", "discord" }
      [] pat = "re:^[Zz]oom$" -> name \in { "Zoom", "zoom" }
      [] pat = "re:^zoom\\.us$" -> name = "zoom.us"
      [] pat = "re:^spotify$" -> name = "spotify"
      [] pat = "re:^Spotify$" -> name = "Spotify"

\* BloatPattern.matches(name, path)
Matches(pattern, name, path) ==
    \E i \in 1..Len(pattern.patterns) :
        /\ IF IsRegex(pattern.patterns[i])
           THEN ReMatch(pattern.patterns[i], name)
           ELSE pattern.patterns[i] = name
        /\ ValidatorOk(pattern, path)

\* the value None where a BloatPattern is expected
NoPattern == [name |-> None]

\* some name matcher of the pattern matches the name (its validator aside)
NameMatches(pattern, name) ==
    \E i \in 1..Len(pattern.patterns) :
        IF IsRegex(pattern.patterns[i])
        THEN ReMatch(pattern.patterns[i], name)
        ELSE pattern.patterns[i] = name

\* a search that ends at the first pattern whose name matches
MatchPatternsStopAtNameMatch(path, patterns) ==
    LET named == { i \in 1..Len(patterns) : NameMatches(patterns[i], Name(path)) }
        first == CHOOSE i \in named : \A j \in named : i <= j
    IN  IF named = {} THEN NoPattern
        ELSE IF ValidatorOk(patterns[first], path) THEN patterns[first]
        ELSE NoPattern

\* match_patterns(path, patterns): the first matching pattern, or None
match_patterns(path, patterns) ==
    LET hits == { i \in 1..Len(patterns) : Matches(patterns[i], Name(path), path) }
    IN  IF hits = {} THEN NoPattern
        ELSE patterns[CHOOSE i \in hits : \A j \in hits : i <= j]

\* Scanner._match_pattern
MatchPattern(path) == match_patterns(path, get_all_patterns)

(***************************************************************************)
(* The trees the commands run on.  The root is /home/u/proj.  A tree of    *)
(* the first family holds up to MaxDirs of six optional children: five     *)
(* directories whose names the registry knows (one of them at depth 2),    *)
(* each empty or holding one file, and a symlink named like a pattern.  A  *)
(* tree of the second family holds the first k <= MaxFiles of five         *)
(* optional files (two in a sub-directory, one in a directory the guard    *)
(* protects), each a regular file of some (size, digest), the fourth       *)
(* possibly a symlink.  Up to MaxFaults entries of a tree fail.            *)
(***************************************************************************)
Root == <<"home", "u", "proj">>

\* the sizes of the one file of an optional directory (0: the directory is empty)
DirFileSizes == { 0, 1, 1024 * 1024 }

\* the optional children of the first family: <<directory path, file name>>
DirSlots ==
    { <<Join(Root, ".docker"), "config.json">>,
      <<Join(Root, ".git"), "HEAD">>,
      <<Join(Root, "node_modules"), "index.js">>,
      <<Join(Join(Root, "src"), "__pycache__"), "mod.pyc">>,
      <<Join(Root, "vendor"), "package.json">> }

LinkSlot == Join(Root, "build")

\* the entries of one optional directory holding a file of size sz
DirSlotEntries(slot, sz) ==
    { Dir(slot[1]) }
    \cup (IF Len(slot[1]) > Len(Root) + 1 THEN { Dir(Parent(slot[1])) } ELSE {})
    \cup (IF sz > 0 THEN { File(Join(slot[1], slot[2]), sz, "a0", 1) } ELSE {})

ScanTrees ==
    { { Dir(Root) }
        \cup UNION { DirSlotEntries(slot, sizeOf[slot]) : slot \in chosen }
        \cup (IF link THEN { Symlink(LinkSlot) } ELSE {}) :
      <<chosen, sizeOf, link>> \in
        { <<c, f, l>> \in
            UNION { { <<c0, f0, l0>> : f0 \in [c0 -> DirFileSizes], l0 \in BOOLEAN } :
                    c0 \in SUBSET DirSlots } :
            Cardinality(c) + (IF l THEN 1 ELSE 0) <= MaxDirs } }

\* the optional files of the second family, with their st_mtime
FileSlots ==
    << <<Join(Root, "a.txt"), 3>>,
       <<Join(Join(Root, "src"), "b.txt"), 1>>,
       <<Join(Join(Root, ".docker"), "d.txt"), 1>>,
       <<Join(Root, "c.txt"), 2>>,
       <<Join(Join(Root, "src"), "e.txt"), 2>> >>

\* what optional file i is: a regular file of <<size, digest>>, or (the
\* fourth) a symlink
FileVariants(i) ==
    { <<1, "a1">>, <<1, "b2">>, <<2, "a1">> }
    \cup (IF i = 4 THEN { <<0, "symlink">> } ELSE {})

FileSlotEntries(slot, v) ==
    (IF Len(slot[1]) > Len(Root) + 1 THEN { Dir(Parent(slot[1])) } ELSE {})
    \cup { IF v[2] = "symlink" THEN Symlink(slot[1])
           ELSE File(slot[1], v[1], v[2], slot[2]) }

\* the variant of each of the first k files
VariantChoices(k) ==
    { f \in [1..k -> UNION { FileVariants(i) : i \in 1..k }] :
        \A i \in 1..k : f[i] \in FileVariants(i) }

DupTrees ==
    { { Dir(Root) } \cup UNION { FileSlotEntries(FileSlots[i], variantOf[i]) : i \in 1..k } :
      <<k, variantOf>> \in
        UNION { { <<k0, f0>> : f0 \in VariantChoices(k0) } :
                k0 \in { n \in 0..MaxFiles : n <= Len(FileSlots) } } }

\* a root whose own name the registry knows
RootMatching == <<"home", "u", "node_modules">>

\* the trees of the first family, moved from Root to RootMatching
TreesAtRootMatching ==
    { { [e EXCEPT !.path = RootMatching \o SubSeq(e.path, Len(Root) + 1, Len(e.path))] :
        e \in tree } : tree \in ScanTrees }

\* tree with the entries at the paths of bad failing: a directory cannot be
\* enumerated, a file cannot be read
WithFaults(tree, bad) ==
    { IF e.path \in bad THEN [e EXCEPT !.err = TRUE] ELSE e : e \in tree }

\* the paths that may fail: the directories, and the files of the second family
Faultable(tree) ==
    { e.path : e \in { x \in tree : \/ x.kind = "dir"
                                    \/ x.kind = "file" /\ x.digest # "a0" } }

FaultyTrees(trees) ==
    UNION { { WithFaults(tree, bad) :
              bad \in { b \in SUBSET Faultable(tree) : Cardinality(b) <= MaxFaults } } :
            tree \in trees }

(***************************************************************************)
(* core/scanner.py                                                         *)
(***************************************************************************)
RECURSIVE SumSeq(_)
SumSeq(s) == IF s = <<>> THEN 0 ELSE s[1] + SumSeq(Tail(s))

RECURSIVE get_directory_size(_)
RECURSIVE SizeEntries(_, _)

\* get_directory_size(path): <<total_bytes, file_count>>; a directory that
\* cannot be enumerated contributes <<0, 0>>
get_directory_size(path) ==
    IF ScandirFails(path) THEN <<0, 0>> ELSE SizeEntries(Scandir(path), 1)

\* the for-loop of get_directory_size from entry i on
SizeEntries(entries, i) ==
    IF i > Len(entries) THEN <<0, 0>>
    ELSE LET e == entries[i]
             this == CASE e.kind = "symlink" -> <<0, 0>>
                       [] e.kind = "file" -> <<e.size, 1>>
                       [] e.kind = "dir" -> get_directory_size(e.path)
             rest == SizeEntries(entries, i + 1)
         IN  <<this[1] + rest[1], this[2] + rest[2]>>

\* a calc_size whose workers add to one total they share: the size it returns
\* includes the sizes of the targets appended before it ran
CalcSizeSharedTotal(item) ==
    LET sc == get_directory_size(item.path)
        before == SumSeq([k \in 1..Len(targets) |-> targets[k].size_bytes])
    IN  <<item.path, item.pattern, sc[1] + before, sc[2]>>

\* calc_size(item): (path, pattern, size_bytes, file_count)
calc_size(item) ==
    LET sc == get_directory_size(item.path)
    IN  <<item.path, item.pattern, sc[1], sc[2]>>

NoMatches == [matches |-> <<>>, errors |-> <<>>, scandirs |-> <<>>]

RECURSIVE CollectMatches(_, _, _)
RECURSIVE CollectEntries(_, _, _, _)

\* _collect_matches without its test of the depth
CollectMatchesNoDepthLimit(path, depth, max_depth) ==
    IF is_protected_path(path, TRUE) THEN NoMatches
    ELSE IF ScandirFails(path)
         THEN [matches |-> <<>>, errors |-> <<ScanError(path)>>, scandirs |-> <<path>>]
    ELSE LET below == CollectEntries(Scandir(path), 1, depth, max_depth)
         IN  [below EXCEPT !.scandirs = <<path>> \o @]

\* Scanner._collect_matches(path, ..., depth, max_depth): what the call appends
\* to matches and to result.scan_errors, in order, and the directories it
\* calls os.scandir on (scandirs), in order
CollectMatches(path, depth, max_depth) ==
    IF depth > max_depth THEN NoMatches
    ELSE IF is_protected_path(path, TRUE) THEN NoMatches
    ELSE IF ScandirFails(path)
         THEN [matches |-> <<>>, errors |-> <<ScanError(path)>>, scandirs |-> <<path>>]
    ELSE LET below == CollectEntries(Scandir(path), 1, depth, max_depth)
         IN  [below EXCEPT !.scandirs = <<path>> \o @]

\* a loop that tests entry.is_dir() and so follows a symlink to its target
CollectEntriesFollowingSymlinks(entries, i, depth, max_depth) ==
    IF i > Len(entries) THEN NoMatches
    ELSE LET e == entries[i]
             matched_pattern == MatchPattern(e.path)
             this == IF e.kind = "file" THEN NoMatches
                     ELSE IF matched_pattern # NoPattern
                          THEN [matches |-> <<[path |-> e.path,
                                               pattern |-> matched_pattern]>>,
                                errors |-> <<>>, scandirs |-> <<>>]
                     ELSE CollectMatches(IF e.kind = "symlink" THEN Readlink(e.path)
                                         ELSE e.path, depth + 1, max_depth)
             rest == CollectEntries(entries, i + 1, depth, max_depth)
         IN  [matches |-> this.matches \o rest.matches,
              errors |-> this.errors \o rest.errors,
              scandirs |-> this.scandirs \o rest.scandirs]

\* a loop that records a matching directory and walks into it as well
CollectEntriesEnteringMatches(entries, i, depth, max_depth) ==
    IF i > Len(entries) THEN NoMatches
    ELSE LET e == entries[i]
             matched_pattern == MatchPattern(e.path)
             below == CollectMatches(e.path, depth + 1, max_depth)
             this == IF e.kind # "dir" THEN NoMatches
                     ELSE IF matched_pattern # NoPattern
                          THEN [below EXCEPT !.matches =
                                    <<[path |-> e.path, pattern |-> matched_pattern]>> \o @]
                     ELSE below
             rest == CollectEntries(entries, i + 1, depth, max_depth)
         IN  [matches |-> this.matches \o rest.matches,
              errors |-> this.errors \o rest.errors,
              scandirs |-> this.scandirs \o rest.scandirs]

\* the for-loop of _collect_matches from entry i on
CollectEntries(entries, i, depth, max_depth) ==
    IF i > Len(entries) THEN NoMatches
    ELSE LET e == entries[i]
             matched_pattern == MatchPattern(e.path)
             this == IF e.kind # "dir" THEN NoMatches
                     ELSE IF matched_pattern # NoPattern
                          THEN [matches |-> <<[path |-> e.path,
                                               pattern |-> matched_pattern]>>,
                                errors |-> <<>>, scandirs |-> <<>>]
                     ELSE CollectMatches(e.path, depth + 1, max_depth)
             rest == CollectEntries(entries, i + 1, depth, max_depth)
         IN  [matches |-> this.matches \o rest.matches,
              errors |-> this.errors \o rest.errors,
              scandirs |-> this.scandirs \o rest.scandirs]

\* the thresholds as calc_target applies them: the pattern's minimum alone
SizePassesPatternOnly(size, pattern, user_min) == size >= pattern.min_size

\* Scanner.scan: "if size > 0 and size >= pattern.min_size and size >= self.min_size"
SizePasses(size, pattern, user_min) ==
    size > 0 /\ size >= pattern.min_size /\ size >= user_min

RECURSIVE StableOrderDesc(_, _)
\* list.sort(key=..., reverse=True) on a list with these keys: the indices
\* 1..n in sorted order (the sort is stable: equal keys keep their order)
StableOrderDesc(keys, n) ==
    IF n = 0 THEN <<>>
    ELSE LET prev == StableOrderDesc(keys, n - 1)
             pos == Cardinality({ j \in 1..(n - 1) : keys[prev[j]] >= keys[n] })
         IN  SubSeq(prev, 1, pos) \o <<n>> \o SubSeq(prev, pos + 1, n - 1)

\* the targets left in the order they were appended
TargetsAsAppended(ts) == ts

\* result.targets.sort(key=lambda t: t.size_bytes, reverse=True)
SortTargets(ts) ==
    LET order == StableOrderDesc([i \in 1..Len(ts) |-> ts[i].size_bytes], Len(ts))
    IN  [i \in 1..Len(ts) |-> ts[order[i]]]

(***************************************************************************)
(* core/parallel.py                                                        *)
(***************************************************************************)
MIN_PARALLEL_ITEMS == 2

\* parallel_map: the items that can be yielded next.  Sequentially
\* (parallelism disabled, or fewer than MIN_PARALLEL_ITEMS items) the items
\* come in input order; from the pool, as_completed yields them in the
\* order the workers finish, which is any order.
NextYield(n_items, enabled, left) ==
    IF ~enabled \/ n_items < MIN_PARALLEL_ITEMS
    THEN { i \in left : \A j \in left : i <= j }
    ELSE left

\* the function handed to parallel_map in the tests of the repository:
\* "if x == 3: raise ValueError(...); return x * 2", as the result it returns
\* and the exception it raises (None: it returned)
maybe_fail(x) ==
    IF x = 3 THEN [result |-> None, error |-> "ValueError"]
    ELSE [result |-> x * 2, error |-> None]

\* "try: result = func(item); yield (item, result, None)
\*   except Exception as e: yield (item, None, e)"
TryCall(item) ==
    LET outcome == maybe_fail(item)
    IN  IF outcome.error = None THEN <<item, outcome.result, None>>
        ELSE <<item, None, outcome.error>>

\* a loop that an exception of one item ends: the items left are dropped
LeftAfterAbortOnError(left, i, tuple) ==
    IF tuple[3] # None THEN {} ELSE left \ {i}

\* the items still to come once item i has been yielded
LeftAfter(left, i, tuple) == left \ {i}

\* None in a slot of "results = [None] * n"
Unfilled == <<>>

\* results filled in the order the tasks complete
StoreResultInCompletionOrder(results, idx, tuple) ==
    LET free == { k \in 1..Len(results) : results[k] = Unfilled }
    IN  [results EXCEPT ![CHOOSE k \in free : \A j \in free : k <= j] = tuple]

\* "results[idx] = (item, result, None)" / "results[idx] = (item, None, e)"
StoreResult(results, idx, tuple) == [results EXCEPT ![idx] = tuple]

(***************************************************************************)
(* core/duplicates.py                                                      *)
(***************************************************************************)
NoFiles == [files |-> <<>>, errors |-> <<>>, scandirs |-> <<>>]

RECURSIVE CollectFilesBySize(_, _)
RECURSIVE CollectFileEntries(_, _, _)

\* a walk that records the files directly inside path and enters no
\* sub-directory
CollectFilesTopOnly(path, floor) ==
    IF is_protected_path(path, TRUE) THEN NoFiles
    ELSE IF ScandirFails(path)
         THEN [files |-> <<>>, errors |-> <<PathStr(path) \o ": " \o ErrText(path)>>,
               scandirs |-> <<path>>]
    ELSE LET here == SelectSeq(Scandir(path),
                               LAMBDA e : e.kind = "file" /\ e.size >= floor)
         IN  [files |-> [i \in 1..Len(here) |-> [size |-> here[i].size,
                                                   path |-> here[i].path]],
              errors |-> <<>>, scandirs |-> <<path>>]

\* a walk that does not ask is_protected_path before it enumerates
CollectFilesBySizeUnguarded(path, floor) ==
    IF ScandirFails(path)
    THEN [files |-> <<>>, errors |-> <<ScanError(path)>>, scandirs |-> <<path>>]
    ELSE LET below == CollectFileEntries(Scandir(path), 1, floor)
         IN  [below EXCEPT !.scandirs = <<path>> \o @]

\* DuplicateScanner._collect_files_by_size(path, ...): the (size, path) pairs
\* the call records, in discovery order, what it appends to scan_errors, and
\* the directories it calls os.scandir on (scandirs), in order
CollectFilesBySize(path, floor) ==
    IF is_protected_path(path, TRUE) THEN NoFiles
    ELSE IF ScandirFails(path)
         THEN [files |-> <<>>, errors |-> <<ScanError(path)>>, scandirs |-> <<path>>]
    ELSE LET below == CollectFileEntries(Scandir(path), 1, floor)
         IN  [below EXCEPT !.scandirs = <<path>> \o @]

\* the for-loop of _collect_files_by_size from entry i on
CollectFileEntries(entries, i, floor) ==
    IF i > Len(entries) THEN NoFiles
    ELSE LET e == entries[i]
             this == CASE e.kind = "symlink" -> NoFiles
                       [] e.kind = "file" ->
                            IF e.size >= floor
                            THEN [files |-> <<[size |-> e.size, path |-> e.path]>>,
                                  errors |-> <<>>, scandirs |-> <<>>]
                            ELSE NoFiles
                       [] e.kind = "dir" -> CollectFilesBySize(e.path, floor)
             rest == CollectFileEntries(entries, i + 1, floor)
         IN  [files |-> this.files \o rest.files, errors |-> this.errors \o rest.errors,
              scandirs |-> this.scandirs \o rest.scandirs]

RECURSIVE DistinctInOrder(_)
\* the keys of a dict filled in this order: each value once, by first appearance
DistinctInOrder(s) ==
    IF s = <<>> THEN <<>>
    ELSE LET init == DistinctInOrder(SubSeq(s, 1, Len(s) - 1))
             x == s[Len(s)]
         IN  IF \E i \in 1..Len(init) : init[i] = x THEN init ELSE Append(init, x)

\* size_groups: dict size -> list of paths, as the list of its items
SizeGroups(files) ==
    LET sizes == DistinctInOrder([i \in 1..Len(files) |-> files[i].size])
    IN  [k \in 1..Len(sizes) |->
           [size |-> sizes[k],
            paths |-> SelectSeq(files, LAMBDA f : f.size = sizes[k])]]

RECURSIVE Flatten(_)
Flatten(ss) == IF ss = <<>> THEN <<>> ELSE Head(ss) \o Flatten(Tail(ss))

\* candidate_groups (the sizes with 2+ files) flattened into (size, path) tuples
Candidates(files) ==
    LET candidate_groups == SelectSeq(SizeGroups(files), LAMBDA g : Len(g.paths) >= 2)
    IN  Flatten([k \in 1..Len(candidate_groups) |-> candidate_groups[k].paths])

\* a hash_file that returns a digest for a file it cannot read
HashFileDespiteError(path) == EntryAt(path).digest

\* hash_file(path): the hex digest, or None if the file cannot be read
hash_file(path) == IF EntryAt(path).err THEN None ELSE EntryAt(path).digest

\* hash_candidate(item): (size, path, file_hash, mtime)
hash_candidate(item) ==
    <<item.size, item.path, hash_file(item.path), EntryAt(item.path).mtime>>

\* key = f"{size}:{file_hash}"
GroupKey(size, file_hash) == ToString(size) \o ":" \o file_hash

\* the body of the result loop of DuplicateScanner.scan for one yielded item:
\* hash_groups after it
AddToGroups(hg, item) ==
    LET hash_result == hash_candidate(item)
        file_hash == hash_result[3]
        key == GroupKey(item.size, file_hash)
        file == [path |-> item.path, size_bytes |-> item.size, mtime |-> hash_result[4]]
        with_key == IF \E k \in 1..Len(hg) : hg[k].key = key THEN hg
                    ELSE Append(hg, [key |-> key, hash_value |-> file_hash,
                                     size_bytes |-> item.size, files |-> <<>>])
    IN  IF file_hash = None THEN hg
        ELSE [k \in 1..Len(with_key) |->
                IF with_key[k].key = key
                THEN [with_key[k] EXCEPT !.files = Append(@, file)]
                ELSE with_key[k]]

\* DuplicateGroup.duplicate_count
duplicate_count(g) == Len(g.files) - 1

\* DuplicateGroup.wasted_bytes
wasted_bytes(g) == g.size_bytes * duplicate_count(g)

\* a filter that keeps every group
ActualDuplicatesAll(hg) == hg

\* [group for group in hash_groups.values() if len(group.files) >= 2]
ActualDuplicates(hg) == SelectSeq(hg, LAMBDA g : Len(g.files) >= 2)

\* result.groups.sort(key=lambda g: g.wasted_bytes, reverse=True)
SortGroups(gs) ==
    LET order == StableOrderDesc([i \in 1..Len(gs) |-> wasted_bytes(gs[i])], Len(gs))
    IN  [i \in 1..Len(gs) |-> gs[order[i]]]

\* min(self.files, key=...) / max(..., key=...): the first index whose key is
\* the least of keys (least = TRUE) or the greatest (least = FALSE)
FirstBest(keys, least) ==
    CHOOSE i \in 1..Len(keys) :
        /\ \A j \in 1..Len(keys) : IF least THEN keys[i] <= keys[j] ELSE keys[i] >= keys[j]
        /\ \A j \in 1..(i - 1) : keys[j] # keys[i]

\* get_keep_file with the min-scan of "shortest" keeping the last of the ties
GetKeepFileLastTie(g, strategy) ==
    LET n == Len(g.files)
        lens == [i \in 1..n |-> Len(PathStr(g.files[i].path))]
        times == [i \in 1..n |-> g.files[i].mtime]
    IN  IF n = 0 THEN "ValueError"
        ELSE CASE strategy = "shortest" ->
                    g.files[CHOOSE i \in 1..n :
                              /\ \A j \in 1..n : lens[i] <= lens[j]
                              /\ \A j \in (i + 1)..n : lens[j] # lens[i]]
               [] strategy = "oldest" -> g.files[FirstBest(times, TRUE)]
               [] strategy = "newest" -> g.files[FirstBest(times, FALSE)]
               [] OTHER -> g.files[1]

\* DuplicateGroup.get_keep_file(strategy); "ValueError" when it raises
get_keep_file(g, strategy) ==
    LET n == Len(g.files)
        lens == [i \in 1..n |-> Len(PathStr(g.files[i].path))]
        times == [i \in 1..n |-> g.files[i].mtime]
    IN  IF n = 0 THEN "ValueError"
        ELSE CASE strategy = "shortest" -> g.files[FirstBest(lens, TRUE)]
               [] strategy = "oldest" -> g.files[FirstBest(times, TRUE)]
               [] strategy = "newest" -> g.files[FirstBest(times, FALSE)]
               [] OTHER -> g.files[1]

\* a removal list that drops the first file whatever the strategy keeps
GetDuplicatesToRemoveTail(g, strategy) ==
    IF Len(g.files) = 0 THEN "ValueError" ELSE Tail(g.files)

\* DuplicateGroup.get_duplicates_to_remove(strategy)
get_duplicates_to_remove(g, strategy) ==
    IF Len(g.files) = 0 THEN "ValueError"
    ELSE LET keep == get_keep_file(g, strategy)
         IN  SelectSeq(g.files, LAMBDA f : f.path # keep.path)

(***************************************************************************)
(* core/package_scanner.py: the patterns of PackageScanner.                *)
(***************************************************************************)
MAVEN_PATTERN == BP("Maven repository", <<"repository">>, "safe", 0, None)

\* the keys of PACKAGE_MANAGER_GROUPS and of PackageScanner._include
Managers ==
    { "npm", "yarn", "pnpm", "pip", "cargo", "go", "gradle", "maven", "composer",
      "nuget", "bundler" }

PACKAGE_MANAGER_GROUPS ==
    [manager \in Managers |->
        CASE manager = "npm" -> { "npm cache" }
          [] manager = "yarn" -> { "yarn cache" }
          [] manager = "pnpm" -> { "pnpm store" }
          [] manager = "pip" -> { "pip cache", "pipx cache" }
          [] manager = "cargo" -> { "Cargo registry", "Cargo git" }
          [] manager = "go" -> { "Go build cache", "Go mod cache" }
          [] manager = "gradle" -> { "Gradle caches" }
          [] manager = "maven" -> { "Maven repository" }
          [] manager = "composer" -> { "Composer cache" }
          [] manager = "nuget" -> { "NuGet cache" }
          [] manager = "bundler" -> { "Bundler cache" }]

\* _get_manager_for_pattern: no pattern name is in two groups
get_manager_for_pattern(pattern_name) ==
    IF \E manager \in Managers : pattern_name \in PACKAGE_MANAGER_GROUPS[manager]
    THEN CHOOSE manager \in Managers : pattern_name \in PACKAGE_MANAGER_GROUPS[manager]
    ELSE None

\* PackageManagerConfig(): every manager enabled
AllManagers == [manager \in Managers |-> TRUE]

\* the configurations with at most MaxDisabled managers switched off
ManagerConfigs ==
    { include \in [Managers -> BOOLEAN] :
        Cardinality({ manager \in Managers : ~include[manager] }) <= MaxDisabled }

\* PackageScanner._filter_patterns
FilterPatterns(include) ==
    SelectSeq(PACKAGE_MANAGER_PATTERNS,
              LAMBDA pattern :
                  LET manager == get_manager_for_pattern(pattern.name)
                  IN  manager # None /\ include[manager])

\* the Maven special case without its test of the parent
PackageMatchAnyRepository(path, include) ==
    IF include["maven"] /\ Name(path) = "repository"
    THEN MAVEN_PATTERN
    ELSE match_patterns(path, FilterPatterns(include))

\* PackageScanner._match_against_patterns
PackageMatchAgainstPatterns(path, include) ==
    IF /\ include["maven"]
       /\ Name(path) = "repository"
       /\ Name(Parent(path)) = ".m2"
    THEN MAVEN_PATTERN
    ELSE match_patterns(path, FilterPatterns(include))

\* what a walk appends to result.targets and to result.scan_errors, in order
NothingFound == [targets |-> <<>>, errors |-> <<>>]

\* PackageScanner._create_target, as the list of what the caller appends
CreateTarget(path, pattern) ==
    LET sc == get_directory_size(path)
    IN  IF sc[1] >= pattern.min_size
        THEN <<[path |-> path, pattern |-> pattern, size_bytes |-> sc[1],
                file_count |-> sc[2]]>>
        ELSE <<>>

RECURSIVE ScanDirectory(_, _, _, _)
RECURSIVE ScanDirectoryEntries(_, _, _, _, _)

\* PackageScanner._scan_directory(path, result, depth, max_depth)
ScanDirectory(path, depth, max_depth, include) ==
    LET matched == PackageMatchAgainstPatterns(path, include)
    IN  IF is_protected_path(path, TRUE) THEN NothingFound
        ELSE IF depth = 0 /\ matched # NoPattern
             THEN [targets |-> CreateTarget(path, matched), errors |-> <<>>]
        ELSE IF depth > max_depth THEN NothingFound
        ELSE IF ScandirFails(path)
             THEN [targets |-> <<>>, errors |-> <<ScanError(path)>>]
        ELSE ScanDirectoryEntries(Scandir(path), 1, depth, max_depth, include)

\* the for-loop of _scan_directory from entry i on
ScanDirectoryEntries(entries, i, depth, max_depth, include) ==
    IF i > Len(entries) THEN NothingFound
    ELSE LET e == entries[i]
             matched == PackageMatchAgainstPatterns(e.path, include)
             this == IF e.kind # "dir" THEN NothingFound
                     ELSE IF is_protected_path(e.path, TRUE) THEN NothingFound
                     ELSE IF matched # NoPattern
                          THEN [targets |-> CreateTarget(e.path, matched),
                                errors |-> <<>>]
                     ELSE ScanDirectory(e.path, depth + 1, max_depth, include)
             rest == ScanDirectoryEntries(entries, i + 1, depth, max_depth, include)
         IN  [targets |-> this.targets \o rest.targets,
              errors |-> this.errors \o rest.errors]

RECURSIVE CollectTargets(_, _, _)
\* PackageScanner._collect_targets from cache path i on
CollectTargets(paths_to_scan, i, include) ==
    IF i > Len(paths_to_scan) THEN NothingFound
    ELSE LET this == ScanDirectory(paths_to_scan[i], 0, 3, include)
             rest == CollectTargets(paths_to_scan, i + 1, include)
         IN  [targets |-> this.targets \o rest.targets,
              errors |-> this.errors \o rest.errors]

\* list({t.path: t for t in targets}.values()): one target for each path, at
\* the place of the first with that path, the value of the last
DedupeByPathDict(ts) ==
    LET firsts == { i \in 1..Len(ts) : \A j \in 1..(i - 1) : ts[j].path # ts[i].path }
        LastOf(i) == CHOOSE j \in 1..Len(ts) :
                        /\ ts[j].path = ts[i].path
                        /\ \A k \in (j + 1)..Len(ts) : ts[k].path # ts[i].path
        place == SelectSeq([i \in 1..Len(ts) |-> i], LAMBDA i : i \in firsts)
    IN  [k \in 1..Len(place) |-> ts[LastOf(place[k])]]

(***************************************************************************)
(* platform/detect.py on a Linux host that is not WSL, with                *)
(* XDG_CONFIG_HOME unset.  The system list is built from the home          *)
(* directory, the other three from XdgPaths (xdg_cache_home, config_home). *)
(***************************************************************************)
\* home_dir / ".cache"
cache_home == Join(Home, ".cache")
config_home == Join(Home, ".config")

\* [p for p in paths if p.exists()]
Existing(paths) == SelectSeq(paths, LAMBDA p : Exists(p))

\* get_all_cache_paths
get_all_cache_paths ==
    [system |-> Existing(<< cache_home, Join(Home, ".npm"),
                            Home \o <<".local", "share", "Trash">> >>),
     browser |-> Existing(<< Join(xdg_cache_home, "google-chrome"),
                             Join(xdg_cache_home, "chromium"),
                             xdg_cache_home \o <<"mozilla", "firefox">>,
                             Join(xdg_cache_home, "microsoft-edge"),
                             Join(config_home, "google-chrome"),
                             Join(config_home, "chromium"),
                             Join(config_home, "microsoft-edge") >>),
     package_managers |->
         Existing(<< Join(Home, ".npm"), Join(Home, ".yarn"), Join(Home, ".pnpm-store"),
                     Home \o <<".cargo", "registry">>, Home \o <<".cargo", "git">>,
                     Home \o <<".m2", "repository">>, Home \o <<".gradle", "caches">>,
                     Home \o <<"go", "pkg", "mod", "cache">>,
                     Home \o <<".composer", "cache">>, Home \o <<".nuget", "packages">>,
                     Home \o <<".bundle", "cache">>,
                     Join(xdg_cache_home, "pip"), Join(xdg_cache_home, "go-build"),
                     Join(xdg_cache_home, "composer") >>),
     apps |-> Existing(<< config_home \o <<"Code", "Cache">>,
                          config_home \o <<"Code", "CachedData">>,
                          Join(xdg_cache_home, "Slack"),
                          config_home \o <<"discord", "Cache">>,
                          Join(xdg_cache_home, "spotify"),
                          config_home \o <<"Microsoft", "Microsoft Teams", "Cache">>,
                          Join(xdg_cache_home, "thumbnails"),
                          Join(xdg_cache_home, "fontconfig"),
                          Join(xdg_cache_home, "mesa_shader_cache"),
                          Join(xdg_cache_home, "nvidia") >>)]

(***************************************************************************)
(* core/cache_scanner.py                                                   *)
(***************************************************************************)
\* CacheScanner._match_against_patterns
CacheMatchAgainstPatterns(path) == match_patterns(path, get_system_cache_patterns)

\* "size, count = get_directory_size(p); if size >= matched.min_size:
\* result.targets.append(BloatTarget(...))", as the list of what is appended
CacheTarget(path, matched) ==
    LET sc == get_directory_size(path)
    IN  IF sc[1] >= matched.min_size
        THEN <<[path |-> path, pattern |-> matched, size_bytes |-> sc[1],
                file_count |-> sc[2]]>>
        ELSE <<>>

RECURSIVE ScanSubdirectory(_, _, _)
RECURSIVE ScanCacheEntries(_, _, _, _)

\* CacheScanner._scan_subdirectory(path, result, depth, max_depth)
ScanSubdirectory(path, depth, max_depth) ==
    IF depth > max_depth THEN NothingFound
    ELSE IF ScandirFails(path)
         THEN [targets |-> <<>>, errors |-> <<ScanError(path)>>]
    ELSE ScanCacheEntries(Scandir(path), 1, depth, max_depth)

\* the for-loop of _scan_subdirectory, and of _scan_cache_root with depth 0,
\* from entry i on: a directory that matches nothing is walked with depth + 1
ScanCacheEntries(entries, i, depth, max_depth) ==
    IF i > Len(entries) THEN NothingFound
    ELSE LET e == entries[i]
             matched == CacheMatchAgainstPatterns(e.path)
             this == IF e.kind # "dir" THEN NothingFound
                     ELSE IF is_protected_path(e.path, TRUE) THEN NothingFound
                     ELSE IF matched # NoPattern
                          THEN [targets |-> CacheTarget(e.path, matched),
                                errors |-> <<>>]
                     ELSE ScanSubdirectory(e.path, depth + 1, max_depth)
             rest == ScanCacheEntries(entries, i + 1, depth, max_depth)
         IN  [targets |-> this.targets \o rest.targets,
              errors |-> this.errors \o rest.errors]

\* CacheScanner._scan_cache_root(root, category, result)
ScanCacheRoot(root) ==
    LET matched == CacheMatchAgainstPatterns(root)
    IN  IF is_protected_path(root, TRUE) THEN NothingFound
        ELSE IF matched # NoPattern
             THEN [targets |-> CacheTarget(root, matched), errors |-> <<>>]
        ELSE IF ScandirFails(root)
             THEN [targets |-> <<>>, errors |-> <<ScanError(root)>>]
        ELSE ScanCacheEntries(Scandir(root), 1, 0, 3)

RECURSIVE ScanCacheRoots(_, _)
\* the loop of CacheScanner.scan over paths_to_scan from root i on
ScanCacheRoots(paths_to_scan, i) ==
    IF i > Len(paths_to_scan) THEN NothingFound
    ELSE LET this == ScanCacheRoot(paths_to_scan[i])
             rest == ScanCacheRoots(paths_to_scan, i + 1)
         IN  [targets |-> this.targets \o rest.targets,
              errors |-> this.errors \o rest.errors]

\* a scan that leaves the seen_paths loop out
UniqueTargetsEveryFind(ts) == ts

\* the seen_paths loop of CacheScanner.scan: the first target of each path
UniqueTargets(ts) ==
    LET place == SelectSeq([i \in 1..Len(ts) |-> i],
                           LAMBDA i : \A j \in 1..(i - 1) : ts[j].path # ts[i].path)
    IN  [k \in 1..Len(place) |-> ts[place[k]]]

(***************************************************************************)
(* core/cleaner.py                                                         *)
(***************************************************************************)
\* _delete_target without its safety check
DeleteTargetUnchecked(target) ==
    IF ~Exists(target.path) THEN [fs |-> fs, raised |-> FALSE]
    ELSE [fs |-> fs \ Subtree(target.path), raised |-> FALSE]

\* Cleaner._delete_target(target): the filesystem after the call and whether
\* it raised.  A protected path raises CleanerError; a path that is gone
\* returns; otherwise the path and all below it go, to the trash or for good
\* (send2trash and shutil.rmtree are taken to succeed).
delete_target(target) ==
    IF is_protected_path(target.path, FALSE) THEN [fs |-> fs, raised |-> TRUE]
    ELSE IF ~Exists(target.path) THEN [fs |-> fs, raised |-> FALSE]
    ELSE [fs |-> fs \ Subtree(target.path), raised |-> FALSE]

(***************************************************************************)
(* cli.py: the cleanup handlers                                            *)
(***************************************************************************)
RECURSIVE PickFrom(_, _, _)
\* the items of s at the indices of keep, in the order of s
PickFrom(s, keep, i) ==
    IF i > Len(s) THEN <<>>
    ELSE (IF i \in keep THEN <<s[i]>> ELSE <<>>) \o PickFrom(s, keep, i + 1)

\* a handler that asks for confirmation whatever dry_run says
AfterPreviewNoDryRun(dry) == "confirm"

\* "if dry_run: _print_dry_run_notice(); raise typer.Exit(0)"
AfterPreview(dry) == IF dry THEN "exit" ELSE "confirm"

\* "if not confirm_deletion(...): raise typer.Exit(0)"
AfterConfirm(answer) == IF answer THEN "clean" ELSE "exit"

(***************************************************************************)
(* The commands.                                                           *)
(***************************************************************************)
\* the --min-size values of a run
MinSizes == { 0, 2 }

\* a DuplicateGroup without files
NoGroup == [hash_value |-> "", size_bytes |-> 0, files |-> <<>>]

\* the state before a command runs, but for the tree and the group handed to
\* the keep/delete selection
Fresh ==
    /\ scandir_rev \in BOOLEAN
    /\ pc = "start"
    /\ command = None
    /\ min_size = 0
    /\ par_enabled = TRUE
    /\ matches = <<>>
    /\ pending = {}
    /\ targets = <<>>
    /\ total_size = 0
    /\ scan_errors = <<>>
    /\ candidates = <<>>
    /\ hash_groups = <<>>
    /\ groups = <<>>
    /\ total_wasted = 0
    /\ files_scanned = 0
    /\ dry_run = TRUE
    /\ interactive = TRUE
    /\ selected = <<>>
    /\ calls = <<>>
    /\ clean_idx = 0
    /\ success_count = 0
    /\ failure_count = 0
    /\ kstrategy = None
    /\ kkeep = None
    /\ kremove = <<>>
    /\ pm_mode = None
    /\ pm_results = <<>>
    /\ gscan = FALSE
    /\ gdelete = FALSE
    /\ mp_results = <<>>
    /\ pk_result = None
    /\ walk_max_depth = 0
    /\ enumerated = <<>>
    /\ futures = <<>>
    /\ cache_roots = <<>>

\* cli.scan / cli.clean up to the end of phase 1 of Scanner.scan: the scanner
\* is built with the parsed --min-size and walks the root (clean scans deep)
ScanBegin ==
    /\ pc = "start"
    /\ \E deep \in BOOLEAN :
          LET walk == CollectMatches(scan_root, 0, IF deep THEN 10 ELSE 5)
          IN  \E cmd \in { "scan", "clean" }, floor \in MinSizes, par \in BOOLEAN :
                 /\ cmd = "clean" => deep
                 /\ command' = cmd
                 /\ min_size' = floor
                 /\ par_enabled' = par
                 /\ matches' = walk.matches
                 /\ scan_errors' = walk.errors
                 /\ walk_max_depth' = (IF deep THEN 10 ELSE 5)
                 /\ enumerated' = walk.scandirs
                 /\ pending' = 1..Len(walk.matches)
                 /\ pc' = IF walk.matches = <<>> THEN "scanned" ELSE "sizing"
    /\ UNCHANGED <<fs, scandir_rev, scan_root, targets, total_size>>
    /\ UNCHANGED <<dupVars, cliVars, cleanerVars, keepVars, parVars, guardVars, matchVars, pkgVars, poolVars, envVars>>

\* phase 2 of Scanner.scan: one turn of the loop over parallel_map(calc_size,
\* matches); after the last turn the targets are sorted and summed
DrainSize ==
    /\ pc = "sizing"
    /\ \E i \in NextYield(Len(matches), par_enabled, pending) :
          LET item == matches[i]
              size_result == calc_size(item)
              size == size_result[3]
              appended ==
                  IF SizePasses(size, item.pattern, min_size)
                  THEN Append(targets, [path |-> item.path, pattern |-> item.pattern,
                                        size_bytes |-> size,
                                        file_count |-> size_result[4]])
                  ELSE targets
          IN  /\ pending' = pending \ {i}
              /\ IF pending' = {}
                 THEN /\ targets' = SortTargets(appended)
                      /\ total_size' =
                             SumSeq([k \in 1..Len(appended) |-> appended[k].size_bytes])
                      /\ pc' = "scanned"
                 ELSE /\ targets' = appended
                      /\ UNCHANGED <<total_size, pc>>
    /\ UNCHANGED <<fs, scandir_rev, scan_root, command, min_size, par_enabled, matches, scan_errors>>
    /\ UNCHANGED <<dupVars, cliVars, cleanerVars, keepVars, parVars, guardVars, matchVars, pkgVars, walkVars, poolVars, envVars>>

\* cli.duplicates up to the end of phase 1 of DuplicateScanner.scan
DupBegin ==
    /\ pc = "start"
    /\ \E floor \in MinSizes :
          LET walk == CollectFilesBySize(scan_root, floor)
              cands == Candidates(walk.files)
          IN  \E par \in BOOLEAN :
              /\ command' = "duplicates"
              /\ min_size' = floor
              /\ par_enabled' = par
              /\ files_scanned' = Len(walk.files)
              /\ scan_errors' = walk.errors
              /\ enumerated' = walk.scandirs
              /\ candidates' = cands
              /\ pending' = 1..Len(cands)
              /\ pc' = IF cands = <<>> THEN "dup_scanned" ELSE "hashing"
    /\ UNCHANGED <<fs, scandir_rev, scan_root, matches, targets, total_size>>
    /\ UNCHANGED <<hash_groups, groups, total_wasted, walk_max_depth>>
    /\ UNCHANGED <<cliVars, cleanerVars, keepVars, parVars, guardVars, matchVars, pkgVars, poolVars, envVars>>

\* phase 2 of DuplicateScanner.scan: one turn of the loop over
\* parallel_map(hash_candidate, candidates); after the last turn the groups
\* are filtered, sorted and summed
DrainHash ==
    /\ pc = "hashing"
    /\ \E i \in NextYield(Len(candidates), par_enabled, pending) :
          LET hg == AddToGroups(hash_groups, candidates[i])
              found == ActualDuplicates(hg)
          IN  /\ pending' = pending \ {i}
              /\ hash_groups' = hg
              /\ IF pending' = {}
                 THEN /\ groups' = SortGroups(found)
                      /\ total_wasted' =
                             SumSeq([k \in 1..Len(found) |-> wasted_bytes(found[k])])
                      /\ pc' = "dup_scanned"
                 ELSE UNCHANGED <<groups, total_wasted, pc>>
    /\ UNCHANGED <<fs, scandir_rev, scan_root, command, min_size, par_enabled, matches, targets,
                   total_size, scan_errors>>
    /\ UNCHANGED <<candidates, files_scanned>>
    /\ UNCHANGED <<cliVars, cleanerVars, keepVars, parVars, guardVars, matchVars, pkgVars, walkVars, poolVars, envVars>>

\* cli.clean after the scan: "No bloat found" ends the command; otherwise
\* _handle_targets_cleanup runs up to its dry-run check.  keep is what the
\* user ticks in select_targets.
HandleTargetsCleanup ==
    /\ pc = "scanned"
    /\ command = "clean"
    /\ IF targets = <<>>
       THEN /\ pc' = "exit"
            /\ UNCHANGED cliVars
       ELSE \E dry \in BOOLEAN, inter \in BOOLEAN, keep \in SUBSET (1..Len(targets)) :
               /\ ~inter => keep = 1..Len(targets)
               /\ dry_run' = dry
               /\ interactive' = inter
               /\ selected' = PickFrom(targets, keep, 1)
               /\ IF selected' = <<>>
                  THEN /\ calls' = <<"select_targets">>
                       /\ pc' = "exit"
                  ELSE /\ calls' = (IF inter THEN <<"select_targets">> ELSE <<>>)
                                   \o <<"display_deletion_preview">>
                                   \o (IF dry THEN <<"_print_dry_run_notice">> ELSE <<>>)
                       /\ pc' = AfterPreview(dry)
    /\ UNCHANGED <<fs, scandir_rev, scan_root, command>>
    /\ UNCHANGED <<scanVars, dupVars, cleanerVars, keepVars, parVars, guardVars, matchVars, pkgVars, walkVars, poolVars, envVars>>

\* cli.duplicates after the scan: no groups ends the command; otherwise
\* _handle_duplicates_cleanup runs up to its dry-run check
HandleDuplicatesCleanup ==
    /\ pc = "dup_scanned"
    /\ command = "duplicates"
    /\ IF groups = <<>>
       THEN /\ pc' = "exit"
            /\ UNCHANGED cliVars
       ELSE \E dry \in BOOLEAN, inter \in BOOLEAN, keep \in SUBSET (1..Len(groups)) :
               /\ ~inter => keep = 1..Len(groups)
               /\ dry_run' = dry
               /\ interactive' = inter
               /\ selected' = PickFrom(groups, keep, 1)
               /\ IF selected' = <<>>
                  THEN /\ calls' = <<"select_duplicate_groups">>
                       /\ pc' = "exit"
                  ELSE /\ calls' = (IF inter THEN <<"select_duplicate_groups">> ELSE <<>>)
                                   \o <<"display_duplicate_deletion_preview">>
                                   \o (IF dry THEN <<"_print_dry_run_notice">> ELSE <<>>)
                       /\ pc' = AfterPreview(dry)
    /\ UNCHANGED <<fs, scandir_rev, scan_root, command>>
    /\ UNCHANGED <<scanVars, dupVars, cleanerVars, keepVars, parVars, guardVars, matchVars, pkgVars, walkVars, poolVars, envVars>>

\* _handle_targets_cleanup from confirm_deletion on: a declined confirmation
\* ends the command, an accepted one builds the Cleaner and calls clean
ConfirmTargets ==
    /\ pc = "confirm"
    /\ command = "clean"
    /\ \E answer \in BOOLEAN :
          IF AfterConfirm(answer) = "clean"
          THEN /\ calls' = calls \o <<"confirm_deletion=True", "Cleaner.clean">>
               /\ clean_idx' = 1
               /\ pc' = "cleaning"
          ELSE /\ calls' = Append(calls, "confirm_deletion=False")
               /\ pc' = "exit"
               /\ UNCHANGED clean_idx
    /\ UNCHANGED <<fs, scandir_rev, scan_root, command, dry_run, interactive, selected,
                   success_count, failure_count>>
    /\ UNCHANGED <<scanVars, dupVars, keepVars, parVars, guardVars, matchVars, pkgVars, walkVars, poolVars, envVars>>

\* _handle_duplicates_cleanup from confirm_deletion on.  It calls
\* cleaner.clean_duplicates, a method class Cleaner does not define: the
\* call raises AttributeError and nothing is deleted.
ConfirmDuplicates ==
    /\ pc = "confirm"
    /\ command = "duplicates"
    /\ \E answer \in BOOLEAN :
          IF AfterConfirm(answer) = "clean"
          THEN /\ calls' = calls \o <<"confirm_deletion=True", "Cleaner.clean_duplicates">>
               /\ pc' = "attribute_error"
          ELSE /\ calls' = Append(calls, "confirm_deletion=False")
               /\ pc' = "exit"
    /\ UNCHANGED <<fs, scandir_rev, scan_root, command, dry_run, interactive, selected>>
    /\ UNCHANGED <<scanVars, dupVars, cleanerVars, keepVars, parVars, guardVars, matchVars, pkgVars, walkVars, poolVars, envVars>>

\* one turn of the loop of Cleaner.clean
CleanStep ==
    /\ pc = "cleaning"
    /\ LET outcome == delete_target(selected[clean_idx])
       IN  /\ fs' = outcome.fs
           /\ IF outcome.raised
              THEN /\ failure_count' = failure_count + 1
                   /\ UNCHANGED success_count
              ELSE /\ success_count' = success_count + 1
                   /\ UNCHANGED failure_count
    /\ clean_idx' = clean_idx + 1
    /\ pc' = IF clean_idx = Len(selected) THEN "done" ELSE "cleaning"
    /\ UNCHANGED <<scandir_rev, scan_root, command>>
    /\ UNCHANGED <<scanVars, dupVars, cliVars, keepVars, parVars, guardVars, matchVars, pkgVars, walkVars, poolVars, envVars>>

(***************************************************************************)
(* Spec: scan and clean on the trees of the first family.                  *)
(* SpecDup: DuplicateScanner.scan on the trees of the second family.       *)
(* SpecCli: the three commands on the trees of both families, no entry     *)
(* failing.                                                                *)
(***************************************************************************)
Init ==
    /\ fs \in FaultyTrees(ScanTrees)
    /\ scan_root = Root
    /\ kgroup = NoGroup
    /\ pm_items = <<>>
    /\ gpath = <<>>
    /\ mp_path = <<>>
    /\ mp_patterns = <<>>
    /\ pk_path = <<>>
    /\ pk_include = AllManagers
    /\ xdg_cache_home = cache_home
    /\ Fresh

Next ==
    \/ ScanBegin
    \/ DrainSize
    \/ HandleTargetsCleanup
    \/ ConfirmTargets
    \/ CleanStep

Spec == Init /\ [][Next]_vars

InitDup ==
    /\ fs \in FaultyTrees(DupTrees)
    /\ scan_root = Root
    /\ kgroup = NoGroup
    /\ pm_items = <<>>
    /\ gpath = <<>>
    /\ mp_path = <<>>
    /\ mp_patterns = <<>>
    /\ pk_path = <<>>
    /\ pk_include = AllManagers
    /\ xdg_cache_home = cache_home
    /\ Fresh

NextDup ==
    \/ DupBegin
    \/ DrainHash

SpecDup == InitDup /\ [][NextDup]_vars

InitCli ==
    /\ fs \in ScanTrees \cup DupTrees
    /\ scan_root = Root
    /\ kgroup = NoGroup
    /\ pm_items = <<>>
    /\ gpath = <<>>
    /\ mp_path = <<>>
    /\ mp_patterns = <<>>
    /\ pk_path = <<>>
    /\ pk_include = AllManagers
    /\ xdg_cache_home = cache_home
    /\ Fresh

NextCli ==
    \/ ScanBegin
    \/ DrainSize
    \/ DupBegin
    \/ DrainHash
    \/ HandleTargetsCleanup
    \/ HandleDuplicatesCleanup
    \/ ConfirmTargets
    \/ ConfirmDuplicates
    \/ CleanStep

SpecCli == InitCli /\ [][NextCli]_vars

(***************************************************************************)
(* SpecKeep: get_keep_file and get_duplicates_to_remove on a DuplicateGroup *)
(* of up to MaxGroupLen files with pairwise distinct paths, as the scanner *)
(* builds them, and st_mtime in 1..MaxMtime.                               *)
(***************************************************************************)
KeepStrategy == { "first", "shortest", "oldest", "newest" }

\* the paths of the optional files: str() of the first and the fourth have
\* the same length
GroupPaths == { FileSlots[i][1] : i \in 1..Len(FileSlots) }

\* the file lists of length n
FileLists(n) ==
    { fl \in [1..n -> [path : GroupPaths, size_bytes : {1}, mtime : 1..MaxMtime]] :
        \A i, j \in 1..n : i # j => fl[i].path # fl[j].path }

InitKeep ==
    /\ fs = { Dir(Root) }
    /\ scan_root = Root
    /\ pm_items = <<>>
    /\ gpath = <<>>
    /\ mp_path = <<>>
    /\ mp_patterns = <<>>
    /\ pk_path = <<>>
    /\ pk_include = AllManagers
    /\ xdg_cache_home = cache_home
    /\ Fresh
    /\ \E n \in 0..MaxGroupLen : \E fl \in FileLists(n) :
          kgroup = [hash_value |-> "a1", size_bytes |-> 1, files |-> fl]

\* one call of get_keep_file and of get_duplicates_to_remove with a strategy
SelectKeep ==
    /\ pc = "start"
    /\ \E s \in KeepStrategy :
          /\ kstrategy' = s
          /\ kkeep' = get_keep_file(kgroup, s)
          /\ kremove' = get_duplicates_to_remove(kgroup, s)
    /\ pc' = "selected"
    /\ UNCHANGED <<fs, scandir_rev, scan_root, command, min_size, par_enabled, matches,
                   pending, targets, total_size, scan_errors, kgroup>>
    /\ UNCHANGED <<dupVars, cliVars, cleanerVars, parVars, guardVars, matchVars, pkgVars, walkVars, poolVars, envVars>>

NextKeep == SelectKeep

SpecKeep == InitKeep /\ [][NextKeep]_vars

(***************************************************************************)
(* SpecPar: parallel_map and parallel_map_ordered with maybe_fail on a     *)
(* list of up to MaxItems items, each of 1..3, with the pool enabled or    *)
(* disabled.                                                               *)
(***************************************************************************)
ItemLists == UNION { [1..n -> 1..3] : n \in 0..MaxItems }

InitPar ==
    /\ fs = { Dir(Root) }
    /\ scan_root = Root
    /\ kgroup = NoGroup
    /\ pm_items \in ItemLists
    /\ gpath = <<>>
    /\ mp_path = <<>>
    /\ mp_patterns = <<>>
    /\ pk_path = <<>>
    /\ pk_include = AllManagers
    /\ xdg_cache_home = cache_home
    /\ Fresh

\* the call up to the first turn of the loop
ParBegin ==
    /\ pc = "start"
    /\ \E mode \in { "parallel_map", "parallel_map_ordered" }, par \in BOOLEAN :
          /\ pm_mode' = mode
          /\ par_enabled' = par
          /\ pm_results' = IF mode = "parallel_map" THEN <<>>
                           ELSE [k \in 1..Len(pm_items) |-> Unfilled]
    /\ pending' = 1..Len(pm_items)
    /\ pc' = IF pm_items = <<>> THEN "mapped" ELSE "mapping"
    /\ UNCHANGED <<fs, scandir_rev, scan_root, command, min_size, matches, targets, total_size,
                   scan_errors, pm_items>>
    /\ UNCHANGED <<dupVars, cliVars, cleanerVars, keepVars, guardVars, matchVars, pkgVars, walkVars, poolVars, envVars>>

\* one turn of the loop: the next item in input order (sequential fallback)
\* or the next completed future (pool)
ParYield ==
    /\ pc = "mapping"
    /\ \E i \in NextYield(Len(pm_items), par_enabled, pending) :
          LET tuple == TryCall(pm_items[i])
          IN  /\ pm_results' = IF pm_mode = "parallel_map" THEN Append(pm_results, tuple)
                               ELSE StoreResult(pm_results, i, tuple)
              /\ pending' = LeftAfter(pending, i, tuple)
    /\ pc' = IF pending' = {} THEN "mapped" ELSE "mapping"
    /\ UNCHANGED <<fs, scandir_rev, scan_root, command, min_size, par_enabled, matches, targets,
                   total_size, scan_errors, pm_items, pm_mode>>
    /\ UNCHANGED <<dupVars, cliVars, cleanerVars, keepVars, guardVars, matchVars, pkgVars, walkVars, poolVars, envVars>>

NextPar ==
    \/ ParBegin
    \/ ParYield

SpecPar == InitPar /\ [][NextPar]_vars

(***************************************************************************)
(* SpecWalk: Scanner.scan and DuplicateScanner.scan on the trees of both   *)
(* families in which what fails is one or more of the directories that     *)
(* both walks enter (those that are not protected and match no pattern).   *)
(***************************************************************************)
TreesWithFailedDirectory ==
    { tree \in FaultyTrees(ScanTrees) \cup FaultyTrees(DupTrees) :
        /\ \E e \in tree : e.err
        /\ \A e \in tree : e.err => /\ e.kind = "dir"
                                     /\ ~is_protected_path(e.path, TRUE)
                                     /\ MatchPattern(e.path) = NoPattern }

InitWalk ==
    /\ fs \in TreesWithFailedDirectory
    /\ scan_root = Root
    /\ kgroup = NoGroup
    /\ pm_items = <<>>
    /\ gpath = <<>>
    /\ mp_path = <<>>
    /\ mp_patterns = <<>>
    /\ pk_path = <<>>
    /\ pk_include = AllManagers
    /\ xdg_cache_home = cache_home
    /\ Fresh

NextWalk ==
    \/ ScanBegin
    \/ DrainSize
    \/ DupBegin
    \/ DrainHash

SpecWalk == InitWalk /\ [][NextWalk]_vars

(***************************************************************************)
(* SpecRoot: Scanner.scan on a root that itself matches a pattern, with    *)
(* the trees of the first family below it.                                 *)
(***************************************************************************)
InitRoot ==
    /\ fs \in TreesAtRootMatching
    /\ scan_root = RootMatching
    /\ kgroup = NoGroup
    /\ pm_items = <<>>
    /\ gpath = <<>>
    /\ mp_path = <<>>
    /\ mp_patterns = <<>>
    /\ pk_path = <<>>
    /\ pk_include = AllManagers
    /\ xdg_cache_home = cache_home
    /\ Fresh

NextRoot ==
    \/ ScanBegin
    \/ DrainSize

SpecRoot == InitRoot /\ [][NextRoot]_vars

(***************************************************************************)
(* Specification SpecSysRoot: Scanner.scan and DuplicateScanner.scan given *)
(* a root at or below a system directory, or (for comparison) a directory  *)
(* with a cache name below one, or the project directory.  The trees are   *)
(* those of both families, the first with failing entries, moved below the *)
(* root.                                                                   *)
(***************************************************************************)
\* the roots handed to the scanners
ScanRoots ==
    { <<"tmp">>, <<"tmp", "proj">>, <<"var", "lib", "proj">>, <<"opt", "proj">>,
      <<"root">>, <<"usr", "local">>, <<"tmp", "node_modules">>, Root }

\* tree, built below Root, moved below r
MovedTo(tree, r) ==
    { [e EXCEPT !.path = r \o SubSeq(e.path, Len(Root) + 1, Len(e.path))] : e \in tree }

InitSysRoot ==
    /\ scan_root \in ScanRoots
    /\ fs \in { MovedTo(tree, scan_root) :
                 tree \in FaultyTrees(ScanTrees) \cup DupTrees }
    /\ kgroup = NoGroup
    /\ pm_items = <<>>
    /\ gpath = <<>>
    /\ mp_path = <<>>
    /\ mp_patterns = <<>>
    /\ pk_path = <<>>
    /\ pk_include = AllManagers
    /\ xdg_cache_home = cache_home
    /\ Fresh

NextSysRoot ==
    \/ ScanBegin
    \/ DrainSize
    \/ DupBegin
    \/ DrainHash

SpecSysRoot == InitSysRoot /\ [][NextSysRoot]_vars

(***************************************************************************)
(* Specification SpecSorted: the four scanners, each run to its returned   *)
(* result, on the trees of the first family, on trees of four files that   *)
(* form up to two duplicate groups, and on home directories holding up to  *)
(* MaxDirs cache directories.  A cache tree holds /home/u/proj (empty)     *)
(* and, for each chosen slot, the cache directory with its ancestors below *)
(* the home directory and one file of one of three sizes.                  *)
(***************************************************************************)
\* the optional cache directories: <<directory path, file name>>
CacheSlots ==
    { <<cache_home \o <<"pip">>, "wheel.whl">>,
      <<Home \o <<".npm", "_cacache">>, "index">>,
      <<cache_home \o <<"google-chrome", "Default", "Cache">>, "data_0">>,
      <<Home \o <<".m2", "repository">>, "a.jar">>,
      <<cache_home \o <<"thumbnails">>, "t.png">>,
      <<Home \o <<".cargo", "registry">>, "index.crate">> }

CacheFileSizes == { 1, 2, 50 * 1024 * 1024 }

\* the entries of one cache directory holding a file of size sz
CacheSlotEntries(slot, sz) ==
    { Dir(SubSeq(slot[1], 1, k)) : k \in (Len(Home) + 1)..Len(slot[1]) }
    \cup { File(Join(slot[1], slot[2]), sz, "a0", 1) }

CacheTrees ==
    { { Dir(Root) } \cup UNION { CacheSlotEntries(slot, sizeOf[slot]) : slot \in chosen } :
      <<chosen, sizeOf>> \in
        UNION { { <<c, f>> : f \in [c -> CacheFileSizes] } :
                c \in { c0 \in SUBSET CacheSlots : Cardinality(c0) <= MaxDirs } } }

\* the four optional files of the second family that lie outside .docker,
\* all present, each of any of the regular variants: up to two groups
GroupTrees ==
    { { Dir(Root), Dir(Join(Root, "src")) }
        \cup { File(FileSlots[i][1], variantOf[i][1], variantOf[i][2], FileSlots[i][2]) :
                 i \in { 1, 2, 4, 5 } } :
      variantOf \in [{ 1, 2, 4, 5 } -> { <<1, "a1">>, <<1, "b2">>, <<2, "a1">> }] }

\* cli.caches: CacheScanner(...).scan() from the first line to the return
CacheScan ==
    /\ pc = "start"
    /\ \E include_browsers \in BOOLEAN, include_package_managers \in BOOLEAN,
          include_apps \in BOOLEAN :
          LET cache_paths == get_all_cache_paths
              paths_to_scan ==
                  cache_paths.system
                  \o (IF include_browsers THEN cache_paths.browser ELSE <<>>)
                  \o (IF include_package_managers THEN cache_paths.package_managers
                      ELSE <<>>)
                  \o (IF include_apps THEN cache_paths.apps ELSE <<>>)
              found == ScanCacheRoots(paths_to_scan, 1)
              unique_targets == UniqueTargets(found.targets)
          IN  /\ cache_roots' = paths_to_scan
              /\ targets' = SortTargets(unique_targets)
              /\ total_size' = SumSeq([k \in 1..Len(unique_targets) |->
                                          unique_targets[k].size_bytes])
              /\ scan_errors' = found.errors
    /\ command' = "caches"
    /\ pc' = "cache_scanned"
    /\ UNCHANGED <<fs, scandir_rev, scan_root, min_size, par_enabled, matches, pending>>
    /\ UNCHANGED <<dupVars, cliVars, cleanerVars, keepVars, parVars, guardVars, matchVars,
                   pkgVars, walkVars, poolVars, xdg_cache_home>>

\* the configurations of ManagerConfigs that switch off none but the managers
\* whose caches the cache trees hold
CacheTreeConfigs ==
    { include \in ManagerConfigs :
        \A manager \in Managers \ { "npm", "pip", "maven", "cargo" } : include[manager] }

\* cli.packages: PackageScanner(config=...).scan() from the construction of
\* the scanner to the return
PackageScan ==
    /\ pc = "start"
    /\ \E include \in CacheTreeConfigs :
          LET paths_to_scan == get_all_cache_paths.package_managers
              found == CollectTargets(paths_to_scan, 1, include)
              unique_targets == DedupeByPathDict(found.targets)
          IN  /\ pk_include' = include
              /\ cache_roots' = paths_to_scan
              /\ targets' = SortTargets(unique_targets)
              /\ total_size' = SumSeq([k \in 1..Len(unique_targets) |->
                                          unique_targets[k].size_bytes])
              /\ scan_errors' = found.errors
    /\ command' = "packages"
    /\ pc' = "pkg_scanned"
    /\ UNCHANGED <<fs, scandir_rev, scan_root, min_size, par_enabled, matches, pending,
                   pk_path, pk_result>>
    /\ UNCHANGED <<dupVars, cliVars, cleanerVars, keepVars, parVars, guardVars, matchVars,
                   walkVars, poolVars, xdg_cache_home>>

InitSorted ==
    /\ fs \in ScanTrees \cup GroupTrees \cup CacheTrees
    /\ scan_root = Root
    /\ kgroup = NoGroup
    /\ pm_items = <<>>
    /\ gpath = <<>>
    /\ mp_path = <<>>
    /\ mp_patterns = <<>>
    /\ pk_path = <<>>
    /\ pk_include = AllManagers
    /\ xdg_cache_home = cache_home
    /\ Fresh

NextSorted ==
    \/ ScanBegin
    \/ DrainSize
    \/ DupBegin
    \/ DrainHash
    \/ CacheScan
    \/ PackageScan

SpecSorted == InitSorted /\ [][NextSorted]_vars

(***************************************************************************)
(* Specification SpecCaches: CacheScanner.scan and PackageScanner.scan on  *)
(* home directories holding up to MaxDirs of the cache directories, each   *)
(* empty or holding one file of one byte.                                  *)
(***************************************************************************)
\* the entries of one cache directory that holds no file
EmptyCacheSlotEntries(slot) ==
    { Dir(SubSeq(slot[1], 1, k)) : k \in (Len(Home) + 1)..Len(slot[1]) }

SparseCacheTrees ==
    { { Dir(Root) }
        \cup UNION { IF filled[slot] THEN CacheSlotEntries(slot, 1)
                     ELSE EmptyCacheSlotEntries(slot) : slot \in chosen } :
      <<chosen, filled>> \in
        UNION { { <<c, f>> : f \in [c -> BOOLEAN] } :
                c \in { c0 \in SUBSET CacheSlots : Cardinality(c0) <= MaxDirs } } }

InitCaches ==
    /\ fs \in SparseCacheTrees
    /\ scan_root = Root
    /\ kgroup = NoGroup
    /\ pm_items = <<>>
    /\ gpath = <<>>
    /\ mp_path = <<>>
    /\ mp_patterns = <<>>
    /\ pk_path = <<>>
    /\ pk_include = AllManagers
    /\ xdg_cache_home = cache_home
    /\ Fresh

NextCaches ==
    \/ CacheScan
    \/ PackageScan

SpecCaches == InitCaches /\ [][NextCaches]_vars

(***************************************************************************)
(* Specification SpecXdg: CacheScanner.scan and PackageScanner.scan with   *)
(* XDG_CACHE_HOME unset or set to ~/.npm/_cacache, on home directories     *)
(* whose cache directories hold further cache directories: any of          *)
(* ~/.npm/_cacache, ~/.npm/_cacache/pip, ~/.cache/pip, ~/.cache/pip/wheels *)
(* and ~/.cache/google-chrome/Default/Cache, each empty or holding one     *)
(* file of one byte.                                                       *)
(***************************************************************************)
NestedCacheSlots ==
    { <<Home \o <<".npm", "_cacache">>, "index">>,
      <<Home \o <<".npm", "_cacache", "pip">>, "x.whl">>,
      <<cache_home \o <<"pip">>, "wheel.whl">>,
      <<cache_home \o <<"pip", "wheels">>, "w.whl">>,
      <<cache_home \o <<"google-chrome", "Default", "Cache">>, "data_0">> }

NestedCacheTrees ==
    { { Dir(Root) }
        \cup UNION { IF filled[slot] THEN CacheSlotEntries(slot, 1)
                     ELSE EmptyCacheSlotEntries(slot) : slot \in chosen } :
      <<chosen, filled>> \in
        UNION { { <<c, f>> : f \in [c -> BOOLEAN] } : c \in SUBSET NestedCacheSlots } }

\* os.environ.get("XDG_CACHE_HOME") or (home_dir / ".cache")
XdgCacheHomes == { cache_home, Home \o <<".npm", "_cacache">> }

InitXdg ==
    /\ fs \in NestedCacheTrees
    /\ scan_root = Root
    /\ kgroup = NoGroup
    /\ pm_items = <<>>
    /\ gpath = <<>>
    /\ mp_path = <<>>
    /\ mp_patterns = <<>>
    /\ pk_path = <<>>
    /\ pk_include = AllManagers
    /\ xdg_cache_home \in XdgCacheHomes
    /\ Fresh

NextXdg ==
    \/ CacheScan
    \/ PackageScan

SpecXdg == InitXdg /\ [][NextXdg]_vars

(***************************************************************************)
(* Specification SpecDeep: Scanner.scan and DuplicateScanner.scan on deep   *)
(* trees.  A deep tree is a chain of MaxChain nested directories below     *)
(* /home/u/proj with one file at its end; up to MaxNested consecutive      *)
(* directories of the chain, at any level, are named vendor (a registered  *)
(* name), the others sub.  Beside the chain the root may hold a            *)
(* __pycache__ with one file, and a symlink named up that points back to   *)
(* the root.                                                               *)
(***************************************************************************)
\* the names of a chain of n directories, those at the levels of M matching
ChainNames(n, M) == [k \in 1..n |-> IF k \in M THEN "vendor" ELSE "sub"]

\* the sets of up to MaxNested consecutive levels of the chain
NestedLevels ==
    { { k \in first..(first + count - 1) : k <= MaxChain } :
        first \in 1..MaxChain, count \in 0..MaxNested }

DeepTrees ==
    { { Dir(Root) }
        \cup { Dir(Root \o SubSeq(ChainNames(n, M), 1, k)) : k \in 1..n }
        \cup { File(Join(Root \o ChainNames(n, M), "f.bin"), 1, "a1", 1) }
        \cup (IF side THEN { Dir(Join(Root, "__pycache__")),
                             File(Root \o <<"__pycache__", "mod.pyc">>, 1, "a1", 1) }
              ELSE {})
        \cup (IF link THEN { Symlink(Join(Root, "up")) } ELSE {}) :
      <<n, M, side, link>> \in
        { <<MaxChain, M0, s0, l0>> : M0 \in NestedLevels, s0 \in BOOLEAN,
                                     l0 \in BOOLEAN } }

InitDeep ==
    /\ fs \in DeepTrees
    /\ scan_root = Root
    /\ kgroup = NoGroup
    /\ pm_items = <<>>
    /\ gpath = <<>>
    /\ mp_path = <<>>
    /\ mp_patterns = <<>>
    /\ pk_path = <<>>
    /\ pk_include = AllManagers
    /\ xdg_cache_home = cache_home
    /\ Fresh

NextDeep ==
    \/ ScanBegin
    \/ DrainSize
    \/ DupBegin
    \/ DrainHash

SpecDeep == InitDeep /\ [][NextDeep]_vars

(***************************************************************************)
(* Specification SpecTermFair: Scanner.scan and DuplicateScanner.scan on   *)
(* the trees of both families, no entry failing, under the assumption that *)
(* a scan that has started keeps running: no step of it is put off for     *)
(* ever (each filesystem call and each pool task returns).                 *)
(***************************************************************************)
InitTerm ==
    /\ fs \in ScanTrees \cup DupTrees
    /\ scan_root = Root
    /\ kgroup = NoGroup
    /\ pm_items = <<>>
    /\ gpath = <<>>
    /\ mp_path = <<>>
    /\ mp_patterns = <<>>
    /\ pk_path = <<>>
    /\ pk_include = AllManagers
    /\ xdg_cache_home = cache_home
    /\ Fresh

NextTerm ==
    \/ ScanBegin
    \/ DrainSize
    \/ DupBegin
    \/ DrainHash

\* the command leaves its first line.  From pc = "start" ScanBegin and
\* DupBegin are always possible and every step of NextTerm is one of them,
\* so fairness of this action is fairness of the two.
Started ==
    /\ pc = "start"
    /\ pc' \in { "sizing", "scanned", "hashing", "dup_scanned" }

\* one result of the size phase is yielded.  The guard is DrainSize's own
\* (the phase runs and parallel_map yields an item); what DrainSize does
\* besides is assignment, so the two are enabled in the same states and a
\* step of NextTerm that is one is the other.
SizeYielded ==
    /\ pc = "sizing"
    /\ \E i \in NextYield(Len(matches), par_enabled, pending) :
          pending' = pending \ {i}

\* the same for DrainHash
HashYielded ==
    /\ pc = "hashing"
    /\ \E i \in NextYield(Len(candidates), par_enabled, pending) :
          pending' = pending \ {i}

SpecTermFair ==
    /\ InitTerm
    /\ [][NextTerm]_vars
    /\ WF_pc(Started)
    /\ WF_pending(SizeYielded)
    /\ WF_pending(HashYielded)

(***************************************************************************)
(* Specification SpecThreads: the two scans with the parallel phase taken  *)
(* thread by thread.  After the walk parallel_map submits one future per   *)
(* item; each worker thread runs the function on its item, in any order    *)
(* and interleaved with the coordinating thread, which takes the futures   *)
(* that are done out of as_completed and runs the body of the result loop. *)
(***************************************************************************)
\* a future whose function has not returned
NotDone == <<>>

\* the items argument of the running parallel_map
PoolItems == IF pc = "sizing" THEN matches ELSE candidates

\* parallel_map does not take the sequential fallback
\* ("if not config.enabled or len(items) < MIN_PARALLEL_ITEMS")
UsesPool == par_enabled /\ Len(PoolItems) >= MIN_PARALLEL_ITEMS

\* "future_to_item = {executor.submit(func, item): item for item in items}"
PoolSubmit ==
    /\ pc \in { "sizing", "hashing" }
    /\ UsesPool
    /\ futures = <<>>
    /\ futures' = [i \in 1..Len(PoolItems) |-> NotDone]
    /\ UNCHANGED <<fs, scandir_rev, scan_root, pc, command>>
    /\ UNCHANGED <<scanVars, dupVars, cliVars, cleanerVars, keepVars, parVars, guardVars,
                   matchVars, pkgVars, walkVars, envVars>>

\* a worker that pushes what it computed into the result itself
WorkerRunAppending ==
    /\ pc \in { "sizing", "hashing" }
    /\ \E i \in DOMAIN futures :
          /\ futures[i] = NotDone
          /\ IF pc = "sizing"
             THEN LET r == calc_size(matches[i])
                  IN  /\ futures' = [futures EXCEPT ![i] = r]
                      /\ targets' = Append(targets, [path |-> r[1], pattern |-> r[2],
                                                     size_bytes |-> r[3],
                                                     file_count |-> r[4]])
                      /\ UNCHANGED hash_groups
             ELSE /\ futures' = [futures EXCEPT ![i] = hash_candidate(candidates[i])]
                  /\ hash_groups' = AddToGroups(hash_groups, candidates[i])
                  /\ UNCHANGED targets
    /\ UNCHANGED <<fs, scandir_rev, scan_root, pc, command>>
    /\ UNCHANGED <<min_size, par_enabled, matches, pending, total_size, scan_errors>>
    /\ UNCHANGED <<candidates, groups, total_wasted, files_scanned>>
    /\ UNCHANGED <<cliVars, cleanerVars, keepVars, parVars, guardVars, matchVars, pkgVars,
                   walkVars, envVars>>

\* a worker thread of the pool runs func(item) to its return: calc_size for
\* Scanner.scan, the closure hash_candidate for DuplicateScanner.scan.  Both
\* read the tree and return a tuple, which the future holds.
WorkerRun ==
    /\ pc \in { "sizing", "hashing" }
    /\ \E i \in DOMAIN futures :
          /\ futures[i] = NotDone
          /\ futures' = [futures EXCEPT ![i] = IF pc = "sizing"
                                               THEN calc_size(matches[i])
                                               ELSE hash_candidate(candidates[i])]
    /\ UNCHANGED <<fs, scandir_rev, scan_root, pc, command>>
    /\ UNCHANGED <<scanVars, dupVars, cliVars, cleanerVars, keepVars, parVars, guardVars,
                   matchVars, pkgVars, walkVars, envVars>>

\* one turn of the result loop, in the coordinating thread.  In the
\* sequential fallback the function runs in that thread; from the pool
\* as_completed hands over a future that is done and future.result() is what
\* its worker returned (the tree does not change during a scan, so it is the
\* value DrainSize and DrainHash compute).
ResultLoopTurn ==
    /\ UsesPool => futures # <<>>
    /\ \/ DrainSize
       \/ DrainHash
    /\ UsesPool => \A i \in pending \ pending' : futures[i] # NotDone

NextThreads ==
    \/ ScanBegin
    \/ DupBegin
    \/ PoolSubmit
    \/ WorkerRun
    \/ ResultLoopTurn

SpecThreads == InitTerm /\ [][NextThreads]_vars

(***************************************************************************)
(* Specification SpecGuard: is_protected_path applied, with both values of *)
(* for_scanning, to one path of a bounded universe.  A path is up to       *)
(* MaxPathDepth directory names followed by an optional last component     *)
(* taken from the names the rules of the guard speak about, or the path is *)
(* ~/.local/share/keyrings; the directory at the path is absent, empty, or *)
(* holds one project marker directly or one level down.                    *)
(***************************************************************************)
GuardDirNames == { "etc", "usr", "tmp", "TMP", "home", "u", "proj" }

GuardLastNames ==
    { ".ssh", ".gnupg", ".gpg", ".aws", ".kube", ".docker", "credentials",
      "secrets", ".password-store",
      "__pycache__", ".pytest_cache", ".mypy_cache", ".ruff_cache",
      "node_modules", ".next", ".nuxt", ".cache", ".parcel-cache", ".tox", ".nox",
      "Documents", "Desktop", "Downloads", "Pictures", "Music", "Videos",
      ".config", "keyrings", "src", "proj" }

\* the directory the last entry of PROTECTED_NAMES names
Keyrings == Home \o <<".local", "share", "keyrings">>

GuardPaths ==
    LET above == UNION { [1..k -> GuardDirNames] : k \in 0..MaxPathDepth }
    IN  above \cup { Append(d, n) : d \in above, n \in GuardLastNames } \cup { Keyrings }

GuardTrees(path) ==
    { {}, { Dir(path) }, { Dir(path), Dir(Join(path, "src")),
                           File(Join(Join(path, "src"), "package.json"), 1, "a1", 1) } }
    \cup { { Dir(path), File(Join(path, indicator), 1, "a1", 1) } :
             indicator \in PROTECTED_INDICATORS }

InitGuard ==
    /\ gpath \in GuardPaths
    /\ fs \in GuardTrees(gpath)
    /\ scan_root = Root
    /\ kgroup = NoGroup
    /\ pm_items = <<>>
    /\ mp_path = <<>>
    /\ mp_patterns = <<>>
    /\ pk_path = <<>>
    /\ pk_include = AllManagers
    /\ xdg_cache_home = cache_home
    /\ Fresh

\* the two calls is_protected_path(path, for_scanning=True) and
\* is_protected_path(path) on the same filesystem
GuardCall ==
    /\ pc = "start"
    /\ gscan' = is_protected_path(gpath, TRUE)
    /\ gdelete' = is_protected_path(gpath, FALSE)
    /\ pc' = "guarded"
    /\ UNCHANGED <<fs, scandir_rev, scan_root, command, gpath>>
    /\ UNCHANGED <<scanVars, dupVars, cliVars, cleanerVars, keepVars, parVars, matchVars, pkgVars, walkVars, poolVars, envVars>>

NextGuard == GuardCall

SpecGuard == InitGuard /\ [][NextGuard]_vars

(***************************************************************************)
(* Specification SpecMatch: match_patterns called up to MaxCalls times on  *)
(* one directory of an unchanged filesystem, with the registry of          *)
(* Scanner, the registry of CacheScanner, or a list of up to MaxPatterns   *)
(* patterns; the list may hold a pattern twice, patterns that share a name *)
(* matcher, and a validated pattern ahead of an unvalidated one with the   *)
(* same name matcher.                                                      *)
(***************************************************************************)
\* a caller's pattern that shares name matchers with the validated
\* patterns of DEV_PATTERNS
EnvOrDistPattern == BP("env or dist", <<"env", "dist">>, "caution", 0, None)

MatchPatternPool ==
    { DEV_PATTERNS[1], DEV_PATTERNS[4], BROWSER_CACHE_PATTERNS[1],
      BROWSER_CACHE_PATTERNS[6], EnvOrDistPattern }

PatternLists ==
    { get_all_patterns, get_system_cache_patterns }
    \cup UNION { [1..n -> MatchPatternPool] : n \in 0..MaxPatterns }

MatchDirNames == { ".venv", "env", "dist", "Cache", "GPUCache", "src" }

\* /home/u/proj/<name>, with or without what the validators look for
MatchTrees(name) ==
    { { Dir(Root), Dir(Join(Root, name)) } \cup indicators :
        indicators \in SUBSET { File(Join(Join(Root, name), "pyvenv.cfg"), 1, "a1", 1),
                                File(Join(Root, "setup.py"), 1, "b2", 1) } }

InitMatch ==
    /\ \E name \in MatchDirNames :
          /\ mp_path = Join(Root, name)
          /\ fs \in MatchTrees(name)
    /\ mp_patterns \in PatternLists
    /\ scan_root = Root
    /\ kgroup = NoGroup
    /\ pm_items = <<>>
    /\ gpath = <<>>
    /\ pk_path = <<>>
    /\ pk_include = AllManagers
    /\ xdg_cache_home = cache_home
    /\ Fresh

\* one call match_patterns(path, patterns)
MatchCall ==
    /\ pc \in { "start", "matching" }
    /\ Len(mp_results) < MaxCalls
    /\ mp_results' = Append(mp_results, match_patterns(mp_path, mp_patterns))
    /\ pc' = "matching"
    /\ UNCHANGED <<fs, scandir_rev, scan_root, command, mp_path, mp_patterns>>
    /\ UNCHANGED <<scanVars, dupVars, cliVars, cleanerVars, keepVars, parVars, guardVars,
                   pkgVars, walkVars, poolVars, envVars>>

NextMatch == MatchCall

SpecMatch == InitMatch /\ [][NextMatch]_vars

(***************************************************************************)
(* Specification SpecPkgMatch: PackageScanner._match_against_patterns on   *)
(* one directory, for a scanner built with up to MaxDisabled managers      *)
(* switched off.                                                           *)
(***************************************************************************)
PkgParents ==
    { Home, Join(Home, ".m2"), Join(Home, "m2"), Join(Home, ".gradle"),
      Join(Join(Home, ".m2"), "old") }

PkgDirNames == { "repository", "registry", "caches", "pip", "src", ".m2" }

InitPkgMatch ==
    /\ \E parent \in PkgParents, name \in PkgDirNames :
          /\ pk_path = Join(parent, name)
          /\ fs = { Dir(parent), Dir(Join(parent, name)) }
    /\ pk_include \in ManagerConfigs
    /\ scan_root = Root
    /\ kgroup = NoGroup
    /\ pm_items = <<>>
    /\ gpath = <<>>
    /\ mp_path = <<>>
    /\ mp_patterns = <<>>
    /\ xdg_cache_home = cache_home
    /\ Fresh

\* one call self._match_against_patterns(path)
PkgMatchCall ==
    /\ pc = "start"
    /\ pk_result' = PackageMatchAgainstPatterns(pk_path, pk_include)
    /\ pc' = "pkg_matched"
    /\ UNCHANGED <<fs, scandir_rev, scan_root, command, pk_path, pk_include>>
    /\ UNCHANGED <<scanVars, dupVars, cliVars, cleanerVars, keepVars, parVars, guardVars,
                   matchVars, walkVars, poolVars, envVars>>

NextPkgMatch == PkgMatchCall

SpecPkgMatch == InitPkgMatch /\ [][NextPkgMatch]_vars

(***************************************************************************)
(* Properties of parallel_map and parallel_map_ordered (SpecPar).          *)
(***************************************************************************)
\* C11: parallel_map yields exactly one tuple for each input item, in the
\* sequential and in the pool mode: a call that raises yields
\* (item, None, exception), a call that returns yields (item, result, None),
\* and no other item's tuple is cancelled, dropped or altered by it.
C11_OneTuplePerItem ==
    pm_mode = "parallel_map" =>
        /\ \A k \in 1..Len(pm_results) :
              LET t == pm_results[k]
              IN  /\ t = TryCall(t[1])
                  /\ IF t[1] = 3 THEN t[2] = None /\ t[3] = "ValueError"
                     ELSE t[2] = t[1] * 2 /\ t[3] = None
        /\ \A v \in 1..3 :
              Cardinality({ k \in 1..Len(pm_results) : pm_results[k][1] = v })
                  <= Cardinality({ i \in 1..Len(pm_items) : pm_items[i] = v })
        /\ pc = "mapped" =>
              \A v \in 1..3 :
                  Cardinality({ k \in 1..Len(pm_results) : pm_results[k][1] = v })
                      = Cardinality({ i \in 1..Len(pm_items) : pm_items[i] = v })

\* from the pool, the failing item was yielded first and the two others after it
C11_Witness ==
    /\ pm_mode = "parallel_map"
    /\ pc = "mapped"
    /\ par_enabled
    /\ Len(pm_items) = 3
    /\ pm_items[3] = 3
    /\ pm_results[1][3] = "ValueError"
    /\ pm_results[2][3] = None
    /\ pm_results[3][3] = None

\* C12: parallel_map_ordered returns a list as long as its input whose
\* position i holds the tuple of input item i, for every completion order
\* and also when items fail; no position is left unfilled.
C12_ResultsInInputOrder ==
    pm_mode = "parallel_map_ordered" =>
        /\ Len(pm_results) = Len(pm_items)
        /\ \A i \in 1..Len(pm_items) :
              IF i \in pending /\ pc = "mapping" THEN pm_results[i] = Unfilled
              ELSE /\ pm_results[i] # Unfilled
                   /\ pm_results[i][1] = pm_items[i]
                   /\ pm_results[i] = TryCall(pm_items[i])

\* from the pool, the list is returned after the last item completed first
\* and the failing first item later
C12_Witness ==
    /\ pm_mode = "parallel_map_ordered"
    /\ pc = "mapped"
    /\ par_enabled
    /\ pm_items = <<3, 1, 2>>
    /\ pm_results = <<<<3, None, "ValueError">>, <<1, 2, None>>, <<2, 4, None>>>>

(***************************************************************************)
(* Properties of Scanner.scan and of the clean command (Spec, SpecCli).    *)
(***************************************************************************)
\* the scan of the command has not been followed by a deletion: fs is the
\* tree the scan ran on
TreeAsScanned == pc \in { "sizing", "scanned", "confirm", "exit", "hashing", "dup_scanned" }

\* C1: during the walk of Scanner.scan no directory that the guard protects
\* for scanning is recorded as a candidate or returned as a BloatTarget,
\* the root being unprotected.
C1_NoProtectedCandidate ==
    (TreeAsScanned /\ command \in { "scan", "clean" } /\ ~is_protected_path(Root, TRUE)) =>
        /\ \A i \in 1..Len(matches) : ~is_protected_path(matches[i].path, TRUE)
        /\ \A i \in 1..Len(targets) : ~is_protected_path(targets[i].path, TRUE)

\* C2: in the non-interactive (--auto) flow the list handed to Cleaner.clean
\* holds no target whose pattern has safe_level "dangerous".
C2_NoDangerousAutoSelected ==
    (pc = "cleaning" /\ command = "clean" /\ ~interactive) =>
        \A i \in 1..Len(selected) : selected[i].pattern.safe_level # "dangerous"

\* C3: a turn of the loop of Cleaner.clean on a target that
\* is_protected_path(path, for_scanning=False) protects leaves the filesystem
\* as it is, adds one to failure_count and none to success_count, and goes on
\* to the next target; when the loop ends every target of the list has been
\* counted once.
C3_ProtectedTargetRefused ==
    [][ /\ (pc = "cleaning" /\ is_protected_path(selected[clean_idx].path, FALSE)) =>
              /\ fs' = fs
              /\ failure_count' = failure_count + 1
              /\ success_count' = success_count
              /\ clean_idx' = clean_idx + 1
              /\ pc' = IF clean_idx < Len(selected) THEN "cleaning" ELSE "done"
        /\ pc' = "done" => success_count' + failure_count' = Len(selected') ]_vars

\* a protected first target was refused and a later target was still deleted
C3_Witness ==
    /\ pc = "done"
    /\ Len(selected) >= 2
    /\ is_protected_path(selected[1].path, FALSE)
    /\ failure_count >= 1
    /\ success_count >= 1
    /\ ~Exists(selected[Len(selected)].path)

\* C13: when the root handed to Scanner.scan matches a registered pattern
\* and is not protected, the walk records the root as the one candidate,
\* enumerates none of its children, and the result holds no target but the
\* root.
C13_MatchingRootIsTheOnlyTarget ==
    (/\ command \in { "scan", "clean" }
     /\ pc \in { "sizing", "scanned" }
     /\ MatchPattern(scan_root) # NoPattern
     /\ ~is_protected_path(scan_root, TRUE)) =>
        /\ matches = <<[path |-> scan_root, pattern |-> MatchPattern(scan_root)]>>
        /\ scan_errors = <<>>
        /\ \A k \in 1..Len(targets) : targets[k].path = scan_root

\* the Cleaner methods the handlers call
CleanerCalls == { "Cleaner.clean", "Cleaner.clean_duplicates" }

\* C4: in the clean and the duplicates flow the Cleaner is invoked only with
\* dry_run false and right after confirm_deletion returned true, the dry-run
\* check coming before the confirmation; with dry_run true or a declined
\* confirmation the Cleaner is never invoked and nothing is counted as cleaned.
C4_DeletionOnlyAfterConfirm ==
    LET invoked == \E i \in 1..Len(calls) : calls[i] \in CleanerCalls
        asked == \E i \in 1..Len(calls) :
                    calls[i] \in { "confirm_deletion=True", "confirm_deletion=False" }
        declined == \E i \in 1..Len(calls) : calls[i] = "confirm_deletion=False"
    IN  /\ \A i \in 1..Len(calls) :
              calls[i] \in CleanerCalls =>
                  /\ ~dry_run
                  /\ i > 1
                  /\ calls[i - 1] = "confirm_deletion=True"
        /\ (pc \in { "cleaning", "done", "attribute_error" } \/ clean_idx > 0) => invoked
        /\ dry_run => ~asked
        /\ (dry_run \/ declined) =>
              /\ ~invoked
              /\ clean_idx = 0
              /\ success_count + failure_count = 0

\* --auto --execute, confirmed: the Cleaner has deleted a target
C4_Witness ==
    /\ pc = "done"
    /\ ~interactive
    /\ ~dry_run
    /\ success_count >= 1
    /\ calls[Len(calls)] = "Cleaner.clean"

\* C10: every BloatTarget of the result has size_bytes > 0, size_bytes >= its
\* pattern's min_size and size_bytes >= the caller's min_size, and sizing the
\* candidates adds no scan error.
C10_TargetsMeetThresholds ==
    [][ /\ \A k \in 1..Len(targets') :
              /\ targets'[k].size_bytes > 0
              /\ targets'[k].size_bytes >= targets'[k].pattern.min_size
              /\ targets'[k].size_bytes >= min_size'
        /\ pc = "sizing" => scan_errors' = scan_errors
        /\ (pc = "sizing" /\ pc' = "scanned") =>
              \A i \in 1..Len(matches) :
                  LET size == get_directory_size(matches[i].path)[1]
                  IN  (size = 0 \/ size < matches[i].pattern.min_size \/ size < min_size)
                          => \A k \in 1..Len(targets') : targets'[k].path # matches[i].path
      ]_vars

\* a scan with --min-size 2 kept one candidate and dropped another whose one
\* byte passes its pattern's minimum
C10_Witness ==
    /\ pc = "scanned"
    /\ min_size = 2
    /\ Len(targets) >= 1
    /\ \E i \in 1..Len(matches) :
          /\ get_directory_size(matches[i].path)[1] = 1
          /\ matches[i].pattern.min_size <= 1
          /\ \A k \in 1..Len(targets) : targets[k].path # matches[i].path

(***************************************************************************)
(* Properties of DuplicateScanner.scan (SpecDup).                          *)
(***************************************************************************)
\* C5: every DuplicateGroup of the result has at least 2 member files, each
\* of the group's size_bytes and with content of the group's hash_value,
\* for every tree, min_size and completion order of the hash tasks.
C5_GroupsAreDuplicates ==
    \A k \in 1..Len(groups) :
        LET g == groups[k]
        IN  /\ Len(g.files) >= 2
            /\ \A i \in 1..Len(g.files) :
                  /\ g.files[i].size_bytes = g.size_bytes
                  /\ EntryAt(g.files[i].path).kind = "file"
                  /\ EntryAt(g.files[i].path).size = g.size_bytes
                  /\ EntryAt(g.files[i].path).digest = g.hash_value

\* from the pool, a scan returned a group and discarded a bucket of one file
\* of the same size and another digest
C5_Witness ==
    /\ pc = "dup_scanned"
    /\ par_enabled
    /\ Len(groups) >= 1
    /\ \E k \in 1..Len(hash_groups) :
          /\ Len(hash_groups[k].files) = 1
          /\ hash_groups[k].size_bytes = groups[1].size_bytes
          /\ hash_groups[k].hash_value # groups[1].hash_value

\* the walk gets to p: every directory from the root down to p's parent is
\* unprotected for scanning and can be enumerated
ReachedByWalk(p) ==
    \A n \in Len(Root)..(Len(p) - 1) :
        /\ ~is_protected_path(SubSeq(p, 1, n), TRUE)
        /\ ~EntryAt(SubSeq(p, 1, n)).err

\* the readable regular files of at least min_size that the walk gets to
GroupableFiles ==
    { e \in fs : /\ e.kind = "file"
                 /\ ~e.err
                 /\ e.size >= min_size
                 /\ ReachedByWalk(e.path) }

\* C6: after the scan any two readable regular files that the walk reaches
\* through unprotected directories, of size >= min_size, equal size and equal
\* content hash are members of one group of the result, and such a file
\* whose (size, hash) no other such file shares is in no group.
C6_GroupingCompleteAndExact ==
    pc = "dup_scanned" =>
        \A e1 \in GroupableFiles :
            LET twins == { e2 \in GroupableFiles :
                             /\ e2.path # e1.path
                             /\ e2.size = e1.size
                             /\ e2.digest = e1.digest }
                holding == { k \in 1..Len(groups) :
                               \E i \in 1..Len(groups[k].files) :
                                   groups[k].files[i].path = e1.path }
            IN  IF twins = {} THEN holding = {}
                ELSE /\ Cardinality(holding) = 1
                     /\ \A e2 \in twins : \A k \in holding :
                           \E i \in 1..Len(groups[k].files) :
                               groups[k].files[i].path = e2.path

\* a scan grouped a file of the root with its twin in a sub-directory and
\* left a third file of another size out
C6_Witness ==
    /\ pc = "dup_scanned"
    /\ Len(groups) = 1
    /\ \E i, j \in 1..Len(groups[1].files) :
          /\ Len(groups[1].files[i].path) = Len(Root) + 1
          /\ Len(groups[1].files[j].path) = Len(Root) + 2
    /\ \E e \in GroupableFiles : e.size # groups[1].size_bytes

\* the regular files that cannot be opened
UnreadableFiles == { e \in fs : e.kind = "file" /\ e.err }

\* the paths held by the groups of a list of groups
MemberSets(gs) ==
    { { gs[k].files[i].path : i \in 1..Len(gs[k].files) } : k \in 1..Len(gs) }

\* the groups of the tree without its unreadable files: the classes of equal
\* size and digest with two or more of the remaining files
GroupsWithoutUnreadable ==
    { c \in { { e2.path : e2 \in { x \in GroupableFiles :
                                       x.size = e1.size /\ x.digest = e1.digest } } :
              e1 \in GroupableFiles } :
        Cardinality(c) >= 2 }

\* C27: a file that cannot be read while hashing is in no group, neither of
\* the group map nor of the result, and has no entry in scan_errors (whose
\* entries are those of the directories that cannot be enumerated); the
\* groups are those of the tree without the file, each of two or more files.
C27_UnreadableFileLeftOut ==
    pc = "dup_scanned" =>
        /\ \A e \in UnreadableFiles :
              /\ \A c \in MemberSets(hash_groups) \cup MemberSets(groups) : e.path \notin c
              /\ \A k \in 1..Len(scan_errors) : scan_errors[k] # ScanError(e.path)
        /\ \A k \in 1..Len(scan_errors) :
              \E d \in fs : d.kind = "dir" /\ d.err /\ scan_errors[k] = ScanError(d.path)
        /\ MemberSets(groups) = GroupsWithoutUnreadable
        /\ Len(groups) = Cardinality(GroupsWithoutUnreadable)
        /\ \A k \in 1..Len(groups) : Len(groups[k].files) >= 2

\* two files of one size were candidates, one could not be read: the other
\* sits alone under its key, and the scan reports no group and no error
C27_Witness ==
    /\ pc = "dup_scanned"
    /\ Len(candidates) = 2
    /\ \E i \in 1..2 : EntryAt(candidates[i].path).err
    /\ Len(hash_groups) = 1
    /\ Len(hash_groups[1].files) = 1
    /\ groups = <<>>
    /\ scan_errors = <<>>

\* C7: the members of every group of the result are listed in discovery
\* order whatever order the hash tasks complete in, so the 'first' strategy
\* keeps the first discovered member.
C7_MembersInDiscoveryOrder ==
    pc = "dup_scanned" =>
        LET discovered == CollectFilesBySize(Root, min_size).files
            at(p) == CHOOSE n \in 1..Len(discovered) : discovered[n].path = p
        IN  \A k \in 1..Len(groups) :
                /\ \A i, j \in 1..Len(groups[k].files) :
                      i < j => at(groups[k].files[i].path) < at(groups[k].files[j].path)
                /\ \A j \in 1..Len(groups[k].files) :
                      at(get_keep_file(groups[k], "first").path)
                          <= at(groups[k].files[j].path)

(***************************************************************************)
(* Properties of the two walks (SpecWalk).                                 *)
(***************************************************************************)
\* the walk of Scanner.scan enumerates directory d: d and every directory
\* from the root down to it is unprotected for scanning, none below the root
\* matches a pattern (a match is recorded, not entered), and every one above
\* d could be enumerated
ScannerEnters(d) ==
    /\ IsPrefix(scan_root, d)
    /\ \A n \in Len(scan_root)..Len(d) :
          LET a == SubSeq(d, 1, n)
          IN  /\ ~is_protected_path(a, TRUE)
              /\ n > Len(scan_root) => MatchPattern(a) = NoPattern
              /\ n < Len(d) => ~EntryAt(a).err

\* the walk of DuplicateScanner.scan enumerates directory d
DupEnters(d) ==
    /\ IsPrefix(scan_root, d)
    /\ \A n \in Len(scan_root)..Len(d) :
          LET a == SubSeq(d, 1, n)
          IN  /\ ~is_protected_path(a, TRUE)
              /\ n < Len(d) => ~EntryAt(a).err

\* C14: in the result of Scanner.scan and of DuplicateScanner.scan, a
\* directory that the walk failed to enumerate has added exactly one string
\* "<path>: <message>" to scan_errors and nothing else has; the walk went on
\* with the other branches: every pattern match below a directory that could be enumerated
\* is a candidate and, past the thresholds, a target; every file below such
\* a directory is counted and every two readable twins among them are
\* grouped.
C14_EnumerationFailureIsNotFatal ==
    LET scanning == command \in { "scan", "clean" } /\ pc = "scanned"
        hashing == command = "duplicates" /\ pc = "dup_scanned"
        dirs == { e.path : e \in { x \in fs : x.kind = "dir" } }
        entered == { d \in dirs : IF scanning THEN ScannerEnters(d) ELSE DupEnters(d) }
        failed == { d \in entered : EntryAt(d).err }
        listed == entered \ failed
    IN  (scanning \/ hashing) =>
            /\ Len(scan_errors) = Cardinality(failed)
            /\ \A d \in failed :
                  Cardinality({ k \in 1..Len(scan_errors) :
                                  scan_errors[k] = PathStr(d) \o ": " \o ErrText(d) }) = 1
            /\ scanning =>
                  \A c \in dirs :
                      (Len(c) > Len(scan_root) /\ Parent(c) \in listed
                          /\ MatchPattern(c) # NoPattern) =>
                          /\ \E k \in 1..Len(matches) : matches[k].path = c
                          /\ (/\ get_directory_size(c)[1] > 0
                              /\ get_directory_size(c)[1] >= MatchPattern(c).min_size
                              /\ get_directory_size(c)[1] >= min_size) =>
                                \E k \in 1..Len(targets) : targets[k].path = c
            /\ hashing =>
                  LET found == { e \in fs : /\ e.kind = "file"
                                            /\ e.size >= min_size
                                            /\ Parent(e.path) \in listed }
                  IN  /\ files_scanned = Cardinality(found)
                      /\ \A e1, e2 \in found :
                            (/\ e1.path # e2.path
                             /\ ~e1.err /\ ~e2.err
                             /\ e1.size = e2.size
                             /\ e1.digest = e2.digest) =>
                                \E k \in 1..Len(groups) :
                                    \E i, j \in 1..Len(groups[k].files) :
                                        /\ groups[k].files[i].path = e1.path
                                        /\ groups[k].files[j].path = e2.path

\* src could not be enumerated, the scan reports it once and still returns
\* the target found beside it
C14_Witness ==
    /\ command = "scan"
    /\ pc = "scanned"
    /\ Exists(Join(Root, "src"))
    /\ EntryAt(Join(Root, "src")).err
    /\ scan_errors = <<"/home/u/proj/src: [Errno 13] Permission denied: '/home/u/proj/src'">>
    /\ Len(targets) = 1

(***************************************************************************)
(* Properties of is_protected_path (SpecGuard).                            *)
(***************************************************************************)
\* the absolute POSIX entries of PROTECTED_PATTERNS, as paths
SystemDirectories ==
    { <<>>, <<"bin">>, <<"boot">>, <<"dev">>, <<"etc">>, <<"lib">>, <<"lib64">>,
      <<"opt">>, <<"proc">>, <<"root">>, <<"run">>, <<"sbin">>, <<"srv">>,
      <<"sys">>, <<"tmp">>, <<"usr">>, <<"var">> }

AtOrBelowSystemDirectory(p) ==
    \/ p \in SystemDirectories
    \/ \E d \in SystemDirectories \ { <<>> } : IsPrefix(d, p)

\* C15: a path that is a listed system directory, or lies below one other
\* than the filesystem root, is protected for both values of for_scanning,
\* unless its last component is a safe cache name: then it is not protected
\* for scanning.
C15_SystemDirectoriesProtected ==
    (pc = "guarded" /\ AtOrBelowSystemDirectory(gpath)) =>
        IF Name(gpath) \in { "__pycache__", ".pytest_cache", ".mypy_cache",
                             ".ruff_cache", "node_modules", ".next", ".nuxt",
                             ".cache", ".parcel-cache", ".tox", ".nox" }
        THEN ~gscan
        ELSE gscan /\ gdelete

\* a cache directory two levels below /usr is open to scanning, and its
\* parent is protected
C15_Witness ==
    /\ pc = "guarded"
    /\ gpath = <<"usr", "proj", "node_modules">>
    /\ ~gscan
    /\ is_protected_path(Parent(gpath), TRUE)
    /\ is_protected_path(Parent(gpath), FALSE)

\* C16: a path whose final component is an always-protected name is protected
\* wherever it lies and for both values of for_scanning; no exception of the
\* guard makes it unprotected.
C16_ProtectedNamesEverywhere ==
    (/\ pc = "guarded"
     /\ Name(gpath) \in { ".ssh", ".gnupg", ".gpg", ".aws", ".kube", ".docker",
                          "credentials", "secrets", ".password-store" })
        => gscan /\ gdelete

\* /home/u/.aws, below no system directory and holding no project
\* marker, is protected by its name alone
C16_Witness ==
    /\ pc = "guarded"
    /\ gpath = <<"home", "u", ".aws">>
    /\ fs = {}
    /\ ~AtOrBelowSystemDirectory(gpath)
    /\ gscan
    /\ gdelete

\* a project marker lies directly inside the directory
HoldsProjectMarker(p) ==
    \E marker \in { ".git", "package.json", "pyproject.toml", "Cargo.toml",
                     "go.mod", "pom.xml", "build.gradle" } : Exists(Join(p, marker))

\* one of the rules that do not look at for_scanning covers the path
CoveredByAnotherRule(p) ==
    \/ MatchesProtectedPattern(p) /\ ~IsCacheSubdirectory(p)
    \/ Name(p) \in PROTECTED_NAMES
    \/ Parent(p) = Home /\ Name(p) \in { "Documents", "Desktop", "Downloads",
                                          "Pictures", "Music", "Videos" }

\* C17: the project-marker rule applies to deletion checks only: a directory
\* that directly holds a project marker and is covered by no other rule is
\* protected with for_scanning=False and not with for_scanning=True; and
\* whatever is protected for scanning is protected for deletion.
C17_ProjectMarkerForDeletionOnly ==
    pc = "guarded" =>
        /\ (HoldsProjectMarker(gpath) /\ ~CoveredByAnotherRule(gpath))
              => (gdelete /\ ~gscan)
        /\ gscan => gdelete

\* /home/u/proj holding .git
C17_Witness ==
    /\ pc = "guarded"
    /\ gpath = <<"home", "u", "proj">>
    /\ Exists(Join(gpath, ".git"))
    /\ ~CoveredByAnotherRule(gpath)
    /\ gdelete
    /\ ~gscan

(***************************************************************************)
(* Properties of match_patterns (SpecMatch).                               *)
(***************************************************************************)
\* pattern i of the list satisfies both conditions for the directory
SatisfiesBoth(i) ==
    /\ NameMatches(mp_patterns[i], Name(mp_path))
    /\ ValidatorOk(mp_patterns[i], mp_path)

\* C18: match_patterns returns the earliest pattern of the list some name
\* matcher of which matches the directory name and whose validator, if any,
\* accepts the path; a pattern whose name matches and whose validator fails
\* does not end the search; None is returned only when no pattern satisfies
\* both; and every call on the unchanged filesystem returns the same pattern.
C18_FirstMatchWins ==
    \A k \in 1..Len(mp_results) :
        /\ IF \E i \in 1..Len(mp_patterns) : SatisfiesBoth(i)
           THEN \E i \in 1..Len(mp_patterns) :
                   /\ SatisfiesBoth(i)
                   /\ \A j \in 1..(i - 1) : ~SatisfiesBoth(j)
                   /\ mp_results[k] = mp_patterns[i]
           ELSE mp_results[k] = NoPattern
        /\ mp_results[k] = mp_results[1]

\* /home/u/proj/env without pyvenv.cfg, against the .venv pattern followed by
\* an unvalidated pattern for "env": both calls return the second pattern
C18_Witness ==
    /\ pc = "matching"
    /\ Len(mp_results) = 2
    /\ Len(mp_patterns) = 2
    /\ NameMatches(mp_patterns[1], Name(mp_path))
    /\ ~ValidatorOk(mp_patterns[1], mp_path)
    /\ mp_results[1] = mp_patterns[2]
    /\ mp_results[2] = mp_patterns[2]
    /\ mp_patterns[1] # mp_patterns[2]

(***************************************************************************)
(* Properties of PackageScanner._match_against_patterns (SpecPkgMatch).    *)
(***************************************************************************)
\* C19: in the package-cache scanner a directory named "repository" is
\* classified as the Maven repository cache if and only if its parent is
\* named ".m2" and the maven manager is enabled; otherwise it matches no
\* package-manager pattern.
C19_MavenRepositoryByParent ==
    (pc = "pkg_matched" /\ Name(pk_path) = "repository") =>
        IF Name(Parent(pk_path)) = ".m2" /\ pk_include["maven"]
        THEN pk_result.name = "Maven repository"
        ELSE pk_result = NoPattern

\* /home/u/.m2/repository with maven enabled
C19_Witness ==
    /\ pc = "pkg_matched"
    /\ pk_path = <<"home", "u", ".m2", "repository">>
    /\ pk_include["maven"]
    /\ pk_result = MAVEN_PATTERN

(***************************************************************************)
(* Properties of the returned results of the four scanners (SpecSorted).   *)
(***************************************************************************)
\* C20: results are returned sorted: the targets of Scanner.scan,
\* CacheScanner.scan and PackageScanner.scan are in non-increasing order of
\* size_bytes and the groups of DuplicateScanner.scan in non-increasing order
\* of wasted_bytes, whatever order the size and hash tasks completed in.
C20_ResultsSorted ==
    /\ pc \in { "scanned", "cache_scanned", "pkg_scanned" } =>
          \A i \in 1..(Len(targets) - 1) :
              targets[i].size_bytes >= targets[i + 1].size_bytes
    /\ pc = "dup_scanned" =>
          \A i \in 1..(Len(groups) - 1) :
              groups[i].size_bytes * (Len(groups[i].files) - 1)
                  >= groups[i + 1].size_bytes * (Len(groups[i + 1].files) - 1)

\* Scanner.scan returned two targets of different sizes, the larger first,
\* that the walk had found in the opposite order
C20_Witness ==
    /\ pc = "scanned"
    /\ Len(targets) = 2
    /\ targets[1].size_bytes > targets[2].size_bytes
    /\ matches[1].path = targets[2].path
    /\ matches[2].path = targets[1].path

\* CacheScanner.scan returned two targets of different sizes, the larger
\* first
CacheTargetsOfTwoSizes ==
    /\ pc = "cache_scanned"
    /\ Len(targets) >= 2
    /\ targets[1].size_bytes > targets[2].size_bytes

\* PackageScanner.scan returned two targets of different sizes, the larger
\* first
PackageTargetsOfTwoSizes ==
    /\ pc = "pkg_scanned"
    /\ Len(targets) >= 2
    /\ targets[1].size_bytes > targets[2].size_bytes

\* DuplicateScanner.scan returned two groups of different wasted_bytes
GroupsOfTwoWastes ==
    /\ pc = "dup_scanned"
    /\ Len(groups) >= 2
    /\ wasted_bytes(groups[1]) > wasted_bytes(groups[2])

(***************************************************************************)
(* Properties of the two scans on deep trees (SpecDeep).                   *)
(***************************************************************************)
\* the directories of the tree that lie n levels below the scan root
DirsAtLevel(n) ==
    { e.path : e \in { x \in fs : /\ x.kind = "dir"
                                  /\ IsPrefix(scan_root, x.path)
                                  /\ Len(x.path) = Len(scan_root) + n } }

\* what the tree, the root, --min-size and max_depth determine: the
\* directories with a registered name whose every ancestor from the root
\* down is unprotected for scanning, enumerable, without a registered name
\* below the root, and at most max_depth levels below the root, each with
\* the total size of the regular files below it, those that pass the
\* thresholds
DeterminedTargets ==
    { <<d, get_directory_size(d)[1]>> :
        d \in { c \in UNION { DirsAtLevel(n) : n \in 1..(walk_max_depth + 1) } :
                  /\ MatchPattern(c) # NoPattern
                  /\ ScannerEnters(Parent(c))
                  /\ ~EntryAt(Parent(c)).err
                  /\ get_directory_size(c)[1] > 0
                  /\ get_directory_size(c)[1] >= MatchPattern(c).min_size
                  /\ get_directory_size(c)[1] >= min_size } }

\* how many levels below the scan root path p lies
LevelOf(p) == Len(p) - Len(scan_root)

\* C23: Scanner.scan walks with max_depth 5, or 10 when deep (always for
\* clean); it calls os.scandir on no directory more than max_depth levels
\* below the root and records no candidate more than max_depth + 1 levels
\* below the root, and on a tree whose directories can all be enumerated
\* stopping at the limit leaves scan_errors empty.
C23_DepthBound ==
    (command \in { "scan", "clean" } /\ pc \in { "sizing", "scanned" }) =>
        /\ walk_max_depth \in { 5, 10 }
        /\ command = "clean" => walk_max_depth = 10
        /\ \A i \in 1..Len(enumerated) : LevelOf(enumerated[i]) <= walk_max_depth
        /\ \A i \in 1..Len(matches) : LevelOf(matches[i].path) <= walk_max_depth + 1
        /\ \A k \in 1..Len(targets) : LevelOf(targets[k].path) <= walk_max_depth + 1
        /\ (\A e \in fs : ~e.err) => scan_errors = <<>>

\* a scan that is not deep stopped above a directory with a registered name
\* 7 levels below the root: it enumerated the root and the 5 levels below it,
\* found nothing and reported no error
C23_Witness ==
    /\ command = "scan"
    /\ pc = "scanned"
    /\ walk_max_depth = 5
    /\ \E d \in DirsAtLevel(7) : MatchPattern(d) # NoPattern
    /\ \A n \in 1..6 : \A d \in DirsAtLevel(n) : MatchPattern(d) = NoPattern
    /\ \E i \in 1..Len(enumerated) : LevelOf(enumerated[i]) = 5
    /\ matches = <<>>
    /\ targets = <<>>
    /\ scan_errors = <<>>

\* a deep scan recorded a candidate 11 levels below the root
DeepestCandidateRecorded ==
    /\ pc = "scanned"
    /\ walk_max_depth = 10
    /\ \E k \in 1..Len(targets) : LevelOf(targets[k].path) = 11

\* C24: the walk of Scanner.scan calls os.scandir on no recorded candidate
\* and on nothing below one; the candidates, and so the targets of the
\* result, are pairwise distinct paths none of which lies below another.
C24_MatchedDirectoriesAtomic ==
    (command \in { "scan", "clean" } /\ pc \in { "sizing", "scanned" }) =>
        /\ \A i \in 1..Len(matches) : \A j \in 1..Len(enumerated) :
              ~IsPrefix(matches[i].path, enumerated[j])
        /\ \A i, j \in 1..Len(matches) :
              i # j => ~IsPrefix(matches[i].path, matches[j].path)
        /\ \A i, j \in 1..Len(targets) :
              i # j => ~IsPrefix(targets[i].path, targets[j].path)

\* the one target of a scan holds a directory with a registered name, which
\* is no target
C24_Witness ==
    /\ command = "scan"
    /\ pc = "scanned"
    /\ Len(targets) = 1
    /\ \E e \in fs : /\ e.kind = "dir"
                      /\ e.path # targets[1].path
                      /\ IsPrefix(targets[1].path, e.path)
                      /\ MatchPattern(e.path) # NoPattern

\* the symlinks of the tree
Links == { e.path : e \in { x \in fs : x.kind = "symlink" } }

\* C25: Scanner.scan and DuplicateScanner.scan return (SpecTermFair): the
\* walk calls os.scandir on no directory twice and on nothing at or below a
\* symlink, no symlink is a candidate or a counted file, and a scan that has
\* returned has drained every task it submitted.
C25_ScansTerminate ==
    /\ [](/\ \A i, j \in 1..Len(enumerated) : i # j => enumerated[i] # enumerated[j]
          /\ \A l \in Links :
                /\ \A i \in 1..Len(enumerated) : ~IsPrefix(l, enumerated[i])
                /\ \A i \in 1..Len(matches) : ~IsPrefix(l, matches[i].path)
                /\ \A i \in 1..Len(candidates) : ~IsPrefix(l, candidates[i].path)
          /\ pending \subseteq 1..(Len(matches) + Len(candidates))
          /\ pc \in { "scanned", "dup_scanned" } => pending = {})
    /\ <>(pc \in { "scanned", "dup_scanned" })

\* on a tree with a symlink that points back to the root, a duplicates scan
\* walked the root and a sub-directory, hashed two candidates in the pool and
\* returned
C25_Witness ==
    /\ command = "duplicates"
    /\ pc = "dup_scanned"
    /\ \E l \in Links : Readlink(l) = scan_root
    /\ par_enabled
    /\ Len(enumerated) = 2
    /\ Len(candidates) = 2
    /\ pending = {}
    /\ Len(groups) = 1

\* a step in which a worker thread returns
WorkerReturns == futures # <<>> /\ futures' # futures

\* C26: single writer (SpecThreads).  A step of a worker thread changes its
\* own future and nothing else: result.targets, total_size, hash_groups,
\* result.groups, files_scanned and scan_errors change only in steps of the
\* coordinating thread, and a future that is done holds what the function
\* returns for its item.
C26_SingleWriter ==
    /\ [](\A i \in DOMAIN futures :
             futures[i] # NotDone =>
                futures[i] = IF command = "duplicates"
                             THEN hash_candidate(candidates[i])
                             ELSE calc_size(matches[i]))
    /\ [][WorkerReturns =>
             UNCHANGED <<targets, total_size, scan_errors, hash_groups, groups,
                         files_scanned, pending, matches, candidates>>]_vars

\* a duplicates scan in the pool: one result is in the group map, one worker
\* has returned and waits to be drained, one is still hashing
C26_Witness ==
    /\ command = "duplicates"
    /\ pc = "hashing"
    /\ Len(futures) = 3
    /\ hash_groups # <<>>
    /\ \E i \in pending : futures[i] = NotDone
    /\ \E j \in pending : futures[j] # NotDone

\* the Linux system directories of the protection table, as paths
ListedSystemDirectories ==
    { <<"bin">>, <<"boot">>, <<"dev">>, <<"etc">>, <<"lib">>, <<"lib64">>, <<"opt">>,
      <<"proc">>, <<"root">>, <<"run">>, <<"sbin">>, <<"srv">>, <<"sys">>, <<"tmp">>,
      <<"usr">>, <<"var">> }

\* the root is a listed system directory or lies below one, and its own name
\* is no cache name
SystemRoot ==
    /\ \E d \in ListedSystemDirectories : IsPrefix(d, scan_root)
    /\ ~IsCacheSubdirectory(scan_root)

ScanBelowCacheNameFinds ==
    /\ scan_root = <<"tmp", "node_modules">>
    /\ pc = "dup_scanned"
    /\ groups # <<>>

\* target i of the result lies inside target j
TargetInside(i, j) ==
    /\ i # j
    /\ IsPrefix(targets[j].path, targets[i].path)
    /\ targets[j].path # targets[i].path

\* no two targets of a returned cache or package scan have the same path,
\* and total_size is the sum of their sizes
NoPathTwice ==
    /\ \A i, j \in 1..Len(targets) : i # j => targets[i].path # targets[j].path
    /\ total_size = SumSeq([k \in 1..Len(targets) |-> targets[k].size_bytes])

C30_ListedDirectoriesProtected ==
    (pc = "guarded" /\ gpath \in { Join(Home, ".config"), Keyrings }) =>
        gscan /\ gdelete

RECURSIVE SumSizes(_)
\* the sum of the sizes of a set of <<path, size>> pairs
SumSizes(S) ==
    IF S = {} THEN 0
    ELSE LET x == CHOOSE y \in S : TRUE IN x[2] + SumSizes(S \ {x})

\* C21: the result of Scanner.scan is a function of the tree, the root,
\* --min-size and max_depth alone: its (path, size_bytes) pairs, each once,
\* and its total_size are the same with the pool enabled or disabled, for
\* every order the sizing tasks complete in and every listing order.
C21_ScanDeterministic ==
    (command \in { "scan", "clean" } /\ pc = "scanned") =>
        /\ { <<targets[k].path, targets[k].size_bytes>> : k \in 1..Len(targets) }
               = DeterminedTargets
        /\ Len(targets) = Cardinality(DeterminedTargets)
        /\ total_size = SumSizes(DeterminedTargets)

\* with the pool enabled, two candidates of equal size were sized and the one
\* submitted second is listed first: its task completed first
C21_Witness ==
    /\ command = "scan"
    /\ pc = "scanned"
    /\ par_enabled
    /\ Len(matches) = 2
    /\ Len(targets) = 2
    /\ targets[1].size_bytes = targets[2].size_bytes
    /\ targets[1].path = matches[2].path

(***************************************************************************)
(* Properties of CacheScanner.scan and PackageScanner.scan (SpecCaches).   *)
(***************************************************************************)
\* C22: no result of a scanner that sizes candidates (Scanner, CacheScanner,
\* PackageScanner) holds a target with size_bytes = 0 or with size_bytes
\* below its pattern's min_size.
C22_NoTargetOfSizeZero ==
    pc \in { "scanned", "cache_scanned", "pkg_scanned" } =>
        \A k \in 1..Len(targets) :
            /\ targets[k].size_bytes > 0
            /\ targets[k].size_bytes >= targets[k].pattern.min_size

(***************************************************************************)
(* Properties of the keep/delete selection (SpecKeep).                     *)
(***************************************************************************)
\* C8: for a non-empty group and each strategy, get_duplicates_to_remove
\* with get_keep_file is exactly the file list, the kept file is not in the
\* removal list, the removal list has len(files) - 1 entries, and the
\* removed files keep their relative order.
C8_KeepAndRemovePartition ==
    (pc = "selected" /\ Len(kgroup.files) >= 1) =>
        LET files == kgroup.files
            n == Len(files)
        IN  /\ { kremove[i] : i \in 1..Len(kremove) } \cup { kkeep }
                  = { files[i] : i \in 1..n }
            /\ \A i \in 1..Len(kremove) : kremove[i] # kkeep
            /\ Len(kremove) = n - 1
            /\ \E k \in 1..n :
                  /\ files[k] = kkeep
                  /\ kremove = SubSeq(files, 1, k - 1) \o SubSeq(files, k + 1, n)

\* 'oldest' kept the middle file of three
C8_Witness ==
    /\ pc = "selected"
    /\ kstrategy = "oldest"
    /\ Len(kgroup.files) = 3
    /\ kkeep = kgroup.files[2]
    /\ kremove = <<kgroup.files[1], kgroup.files[3]>>

\* C9: for a non-empty group get_keep_file returns a member: with 'first'
\* the one at index 0; with 'shortest' the earliest of those whose path
\* string is shortest; with 'oldest' one of minimum mtime; with 'newest' one
\* of maximum mtime.
C9_KeepFileByStrategy ==
    (pc = "selected" /\ Len(kgroup.files) >= 1) =>
        LET files == kgroup.files
            n == Len(files)
            len(f) == Len(PathStr(f.path))
        IN  /\ \E k \in 1..n : files[k] = kkeep
            /\ kstrategy = "first" => kkeep = files[1]
            /\ kstrategy = "shortest" =>
                  \E k \in 1..n :
                      /\ files[k] = kkeep
                      /\ \A j \in 1..n : len(files[k]) <= len(files[j])
                      /\ \A j \in 1..(k - 1) : len(files[j]) > len(files[k])
            /\ kstrategy = "oldest" => \A j \in 1..n : kkeep.mtime <= files[j].mtime
            /\ kstrategy = "newest" => \A j \in 1..n : kkeep.mtime >= files[j].mtime

\* 'shortest' on a group whose second and third path strings are equally
\* short, and shorter than the first, kept the second
C9_Witness ==
    /\ pc = "selected"
    /\ kstrategy = "shortest"
    /\ Len(kgroup.files) = 3
    /\ Len(PathStr(kgroup.files[2].path)) = Len(PathStr(kgroup.files[3].path))
    /\ Len(PathStr(kgroup.files[1].path)) > Len(PathStr(kgroup.files[2].path))
    /\ kkeep = kgroup.files[2]

=============================================================================
